---- MODULE Spec2Model ----
(***************************************************************************)
(* Model of iwantitmore/reports_parser.py: the line-item records with      *)
(* their __post_init__ validation, the Report snapshot, and                *)
(* Report.join_reports as called by traverse_reports.                      *)
(*                                                                         *)
(* Representation                                                          *)
(*   float      a record [nan, v]: v is the numeric value, nan marks the   *)
(*              IEEE not-a-number (every ordered comparison with it is     *)
(*              false, as in Python)                                       *)
(*   trade_id   a str whose characters matter to int(): a sequence of      *)
(*              one-character strings                                      *)
(*   other str  a TLA+ string; the order Python gives two such strings is  *)
(*              their position in StrOrder.  A str that the code searches  *)
(*              with `in` is the sequence of its words                     *)
(*   date       the ordinal number of the day                              *)
(*   list       a mutable object: a reference (index) into heap            *)
(*   dict       its items in insertion order (Python dicts keep it)        *)
(*   set        a TLA+ set; the order Python iterates it in is not         *)
(*              determined by the program, so it is chosen by \E           *)
(***************************************************************************)
EXTENDS Integers, Sequences, FiniteSets, TLC

VARIABLES heap,      \* the list objects: heap[r] is the content of list r
          reports,   \* traverse_reports: the local list `reports`
          result,    \* the outcome of join_reports(reports)
          nested,    \* the outcome of join_reports([join_reports(prefix), rest...])
          permuted,  \* the outcome of join_reports on a permutation of reports
          pc,        \* where the caller is
          line,      \* the outcome of the last line-item constructor call
          call       \* the arguments of the last call the caller made

vars == <<heap, reports, result, nested, permuted, pc, line, call>>

(***************************************************************************)
(* Bounds of the model.                                                    *)
(***************************************************************************)
\* the Reports that are merged
MaxReports == 3
\* the trades of all merged Reports together
MaxTradeLines == 3
\* the lines in a list of the Report that is merged alone
MaxLines == 2
\* the cash flows of all merged Reports together
MaxCashLines == 4

(***************************************************************************)
(* Floats.                                                                 *)
(***************************************************************************)
F(n) == [nan |-> FALSE, v |-> n]
NaN == [nan |-> TRUE, v |-> 0]
ZERO == F(0)

\* a < b, a <= b, a > b, a >= b on floats: false when either side is NaN
FLt(a, b) == ~a.nan /\ ~b.nan /\ a.v < b.v
FLe(a, b) == ~a.nan /\ ~b.nan /\ a.v <= b.v
FGt(a, b) == ~a.nan /\ ~b.nan /\ a.v > b.v
FGe(a, b) == ~a.nan /\ ~b.nan /\ a.v >= b.v

(***************************************************************************)
(* class Side                                                              *)
(***************************************************************************)
BUY == "BUY"
SELL == "SELL"
Side == {BUY, SELL}

(***************************************************************************)
(* Outcomes of a call: a returned value or a raised exception.             *)
(***************************************************************************)
None == [kind |-> "none"]
Returned(v) == [kind |-> "ok", value |-> v]
\* ValueError(f"<what>. trade_id={trade_id}")
ValidationError(what, trade_id) ==
    [kind |-> "raise", exc |-> "ValueError", what |-> what, trade_id |-> trade_id]
\* int(s): ValueError("invalid literal for int() with base 10: '<s>'")
InvalidLiteral(s) ==
    [kind |-> "raise", exc |-> "ValueError", what |-> "invalid literal for int()",
     trade_id |-> s]
\* min(set()): ValueError("min() arg is an empty sequence")
EmptyMin ==
    [kind |-> "raise", exc |-> "ValueError", what |-> "min() arg is an empty sequence",
     trade_id |-> <<>>]

(***************************************************************************)
(* EquityTradesReportLine.__post_init__: the first failing test raises.    *)
(***************************************************************************)
EquityPostInit(self) ==
    IF FLe(self.unit_price, ZERO)
    THEN ValidationError("unit_price must be positive", self.trade_id)
    ELSE IF self.side = BUY /\ FLe(self.num_shares, ZERO)
    THEN ValidationError("num_shares must be positive", self.trade_id)
    ELSE IF self.side = BUY /\ FGt(self.amount, ZERO)
    THEN ValidationError("Inconsistent sign of amount vs side", self.trade_id)
    ELSE IF self.side = BUY /\ FGt(self.accum_unpaid_coupon, ZERO)
    THEN ValidationError("Inconsistent sign of accum_unpaid_coupon vs side", self.trade_id)
    ELSE IF self.side = SELL /\ FGe(self.num_shares, ZERO)
    THEN ValidationError("num_shares must be negative", self.trade_id)
    ELSE IF self.side = SELL /\ FLt(self.amount, ZERO)
    THEN ValidationError("Inconsistent sign of amount vs side", self.trade_id)
    ELSE IF self.side = SELL /\ FLt(self.accum_unpaid_coupon, ZERO)
    THEN ValidationError("Inconsistent sign of accum_unpaid_coupon vs side", self.trade_id)
    ELSE IF FGt(self.broker_fee, ZERO)
    THEN ValidationError("broker_fee cannot be positive", self.trade_id)
    ELSE IF FGt(self.exchange_fee, ZERO)
    THEN ValidationError("exchange_fee cannot be positive", self.trade_id)
    ELSE Returned(self)

(***************************************************************************)
(* FXTradesReportLine.__post_init__                                        *)
(***************************************************************************)
FXPostInit(self) ==
    IF FLe(self.strike, ZERO)
    THEN ValidationError("strike must be positive", self.trade_id)
    ELSE IF self.side = BUY /\ FLe(self.und_amt, ZERO)
    THEN ValidationError("Inconsistent sign of und_amt vs side", self.trade_id)
    ELSE IF self.side = BUY /\ FGe(self.acc_amt, ZERO)
    THEN ValidationError("Inconsistent sign of acc_amt vs side", self.trade_id)
    ELSE IF self.side = SELL /\ FGe(self.und_amt, ZERO)
    THEN ValidationError("Inconsistent sign of und_amt vs side", self.trade_id)
    ELSE IF self.side = SELL /\ FLe(self.acc_amt, ZERO)
    THEN ValidationError("Inconsistent sign of acc_amt vs side", self.trade_id)
    ELSE IF FGt(self.broker_fee, ZERO)
    THEN ValidationError("broker_fee cannot be positive", self.trade_id)
    ELSE IF FGt(self.exchange_fee, ZERO)
    THEN ValidationError("exchange_fee cannot be positive", self.trade_id)
    ELSE Returned(self)

(***************************************************************************)
(* Strings.                                                                *)
(***************************************************************************)
\* The strings of the model that Python compares with <, in the order Python
\* gives them (code point by code point).
\* The trading platforms are written in Latin letters here.
StrOrder == <<"EUR", "Fondovyi rynok", "RUB", "USD", "Valyutnyi rynok">>
StrRank(s) == CHOOSE i \in DOMAIN StrOrder : StrOrder[i] = s

\* mutant of StrJoin: the separator follows every part, the last as well
RECURSIVE StrJoinTrailing(_, _)
StrJoinTrailing(sep, parts) ==
    IF parts = <<>> THEN ""
    ELSE parts[1] \o sep \o StrJoinTrailing(sep, Tail(parts))

\* sep.join(parts)
RECURSIVE StrJoin(_, _)
StrJoin(sep, parts) ==
    IF parts = <<>> THEN ""
    ELSE IF Len(parts) = 1 THEN parts[1]
    ELSE parts[1] \o sep \o StrJoin(sep, Tail(parts))

DigitVal == ("0" :> 0) @@ ("1" :> 1) @@ ("2" :> 2) @@ ("3" :> 3) @@ ("4" :> 4) @@
            ("5" :> 5) @@ ("6" :> 6) @@ ("7" :> 7) @@ ("8" :> 8) @@ ("9" :> 9)

\* the digits of an int literal read left to right; -1 at the first character
\* that is no digit
RECURSIVE ParseDigits(_, _)
ParseDigits(s, acc) ==
    IF s = <<>> THEN acc
    ELSE IF Head(s) \notin DOMAIN DigitVal THEN -1
    ELSE ParseDigits(Tail(s), acc * 10 + DigitVal[Head(s)])

\* mutant of PyInt: a text that is no number counts as 0
PyIntLenient(s) ==
    LET signed == s # <<>> /\ Head(s) \in {"-", "+"}
        body == IF signed THEN Tail(s) ELSE s
        mag == IF body = <<>> THEN -1 ELSE ParseDigits(body, 0)
    IN  IF mag < 0 THEN [ok |-> TRUE, v |-> 0]
        ELSE [ok |-> TRUE, v |-> IF signed /\ Head(s) = "-" THEN 0 - mag ELSE mag]

\* int(s) for a str s over digits, signs and letters: [ok, v]
PyInt(s) ==
    LET signed == s # <<>> /\ Head(s) \in {"-", "+"}
        body == IF signed THEN Tail(s) ELSE s
        mag == IF body = <<>> THEN -1 ELSE ParseDigits(body, 0)
    IN  IF mag < 0 THEN [ok |-> FALSE, v |-> 0]
        ELSE [ok |-> TRUE, v |-> IF signed /\ Head(s) = "-" THEN 0 - mag ELSE mag]

(***************************************************************************)
(* Texts that the code searches with `in`: a description, the first cell   *)
(* of a row, the text of a paragraph.  Such a text is the sequence of its  *)
(* words (written in Latin letters here), and `a in b` holds when the      *)
(* words of a stand next to each other in b.                               *)
(***************************************************************************)
Contains(needle, text) ==
    \E i \in 0..(Len(text) - Len(needle)) : SubSeq(text, i + 1, i + Len(needle)) = needle

\* the descriptions that the code names
DEPOSIT == <<"Zachislenie", "d/s">>
WITHDRAWAL == <<"Spisanie", "d/s">>
TRANSFER == <<"Perevod", "d/s">>
CLEARING_TRANSFER == <<"Perevod", "d/s", "dlya", "provedeniya", "raschetov", "po", "kliringu">>
TRADE == <<"Sdelka">>
EXCHANGE_FEE == <<"Komissiya", "Birzhi">>
BROKER_FEE == <<"Komissiya", "Brokera">>

(***************************************************************************)
(* sorted(xs, key=...): Python's sort is stable.  The elements are paired  *)
(* with their keys, every key a tuple of integers compared as Python       *)
(* compares tuples.                                                        *)
(***************************************************************************)
TupleLt(a, b) ==
    \E i \in 1..Len(a) : a[i] < b[i] /\ \A j \in 1..(i - 1) : a[j] = b[j]

\* mutant of InsertKeyed: e goes before the elements of its own key (the sort
\* is not stable)
InsertKeyedBeforeEqual(sorted, e) ==
    LET p == Cardinality({i \in 1..Len(sorted) : TupleLt(sorted[i].key, e.key)})
    IN  SubSeq(sorted, 1, p) \o <<e>> \o SubSeq(sorted, p + 1, Len(sorted))

\* e goes behind every element whose key is not greater than its own
InsertKeyed(sorted, e) ==
    LET p == Cardinality({i \in 1..Len(sorted) : ~TupleLt(e.key, sorted[i].key)})
    IN  SubSeq(sorted, 1, p) \o <<e>> \o SubSeq(sorted, p + 1, Len(sorted))

RECURSIVE SortedKeyed(_)
SortedKeyed(s) ==
    IF s = <<>> THEN <<>>
    ELSE InsertKeyed(SortedKeyed(SubSeq(s, 1, Len(s) - 1)), s[Len(s)])

Values(keyed) == [i \in 1..Len(keyed) |-> keyed[i].val]

\* key=lambda cf: (cf.date, cf.trading_platform, cf.ccy)
CashflowKey(cf) == <<cf.date, StrRank(cf.trading_platform), StrRank(cf.ccy)>>

\* sorted(joined_cashflows, key=lambda cf: (cf.date, cf.trading_platform, cf.ccy))
SortedCashflows(cfs) ==
    Values(SortedKeyed([i \in 1..Len(cfs) |-> [key |-> CashflowKey(cfs[i]), val |-> cfs[i]]]))

(***************************************************************************)
(* The dicts equity_trades_by_trade_id and fx_trades_by_trade_id.          *)
(***************************************************************************)
DictKeys(d) == [i \in 1..Len(d) |-> d[i].trade_id]
DictHas(d, trade_id) == \E i \in 1..Len(d) : d[i].trade_id = trade_id
DictGet(d, trade_id) == d[CHOOSE i \in 1..Len(d) : d[i].trade_id = trade_id]

\* mutant of DictAdd: a trade_id already in the dict is overwritten (the
\* last occurrence wins)
DictAddLastWins(d, tr) ==
    IF DictHas(d, tr.trade_id)
    THEN [i \in 1..Len(d) |-> IF d[i].trade_id = tr.trade_id THEN tr ELSE d[i]]
    ELSE Append(d, tr)

\* one pass of `for eq_tr in rep.equity_trades` (and of the FX loop): a
\* trade_id already in the dict is skipped
DictAdd(d, tr) == IF DictHas(d, tr.trade_id) THEN d ELSE Append(d, tr)

\* mutant of DictAddAll: `break` for `continue`, the first repeated trade_id
\* ends the loop over the trades of the Report
RECURSIVE DictAddAllBreak(_, _)
DictAddAllBreak(d, trades) ==
    IF trades = <<>> \/ DictHas(d, Head(trades).trade_id) THEN d
    ELSE DictAddAllBreak(Append(d, Head(trades)), Tail(trades))

RECURSIVE DictAddAll(_, _)
DictAddAll(d, trades) ==
    IF trades = <<>> THEN d
    ELSE DictAddAll(DictAdd(d, Head(trades)), Tail(trades))

\* mutant of SortedTradeIds: the keys are tested with int() but left in the
\* order of the dict
SortedTradeIdsUnsorted(d) ==
    LET ids == DictKeys(d)
        bad == {i \in 1..Len(ids) : ~PyInt(ids[i]).ok}
    IN  IF bad # {}
        THEN InvalidLiteral(ids[CHOOSE i \in bad : \A j \in bad : i <= j])
        ELSE Returned(ids)

\* sorted(d.keys(), key=lambda trade_id: int(trade_id)): the keys are
\* computed in the order of the dict, the first that int() rejects raises
SortedTradeIds(d) ==
    LET ids == DictKeys(d)
        bad == {i \in 1..Len(ids) : ~PyInt(ids[i]).ok}
    IN  IF bad # {}
        THEN InvalidLiteral(ids[CHOOSE i \in bad : \A j \in bad : i <= j])
        ELSE Returned(Values(SortedKeyed(
                 [i \in 1..Len(ids) |-> [key |-> <<PyInt(ids[i]).v>>, val |-> ids[i]]])))

\* for trade_id in sorted_ids: trades.append(d[trade_id])
TradesInOrder(d, sorted_ids) == [i \in 1..Len(sorted_ids) |-> DictGet(d, sorted_ids[i])]

(***************************************************************************)
(* The heap of list objects.                                               *)
(***************************************************************************)
\* a new list object: the next free reference
NewList(h) == Len(h) + 1

\* the list r now holds v (a new reference extends the heap)
HeapStore(h, r, v) == IF r > Len(h) THEN Append(h, v) ELSE [h EXCEPT ![r] = v]

(***************************************************************************)
(* class Report                                                            *)
(***************************************************************************)
Report(client_name, account_id, acc_start_date, cashflows, equity_trades, fx_trades, source_file) ==
    [client_name |-> client_name, account_id |-> account_id,
     acc_start_date |-> acc_start_date, cashflows |-> cashflows,
     equity_trades |-> equity_trades, fx_trades |-> fx_trades,
     source_file |-> source_file]

\* mutant of SetMin: the greatest element
SetMax(S) == CHOOSE x \in S : \A y \in S : x >= y

\* min(S) of a set that is not empty
SetMin(S) == CHOOSE x \in S : \A y \in S : x <= y

\* the sequences that enumerate the set S, each element once
Orderings(S) ==
    {s \in [1..Cardinality(S) -> S] : \A x \in S : \E i \in 1..Cardinality(S) : s[i] = x}

\* the `for rep in reports` loop of join_reports
RECURSIVE JoinLoop(_, _)
JoinLoop(st, reps) ==
    IF reps = <<>> THEN st
    ELSE LET rep == Head(reps)
             jc == st.joined_cashflows
         IN  JoinLoop(
                 [client_names |-> st.client_names \cup {rep.client_name},
                  account_ids |-> st.account_ids \cup {rep.account_id},
                  start_dates |-> st.start_dates \cup {rep.acc_start_date},
                  fnames |-> st.fnames \cup {rep.source_file},
                  joined_cashflows |-> jc,
                  equity_trades_by_trade_id |->
                      DictAddAll(st.equity_trades_by_trade_id, st.heap[rep.equity_trades]),
                  fx_trades_by_trade_id |->
                      DictAddAll(st.fx_trades_by_trade_id, st.heap[rep.fx_trades]),
                  heap |-> HeapStore(st.heap, jc, st.heap[jc] \o st.heap[rep.cashflows])],
                 Tail(reps))

\* mutant of JoinLoopEnd: the accumulators start as the first Report's own
\* values, joined_cashflows being its cashflows list, and the loop runs over
\* the other Reports
JoinLoopEndFromFirst(h, reps) ==
    IF reps = <<>>
    THEN [client_names |-> {}, account_ids |-> {}, start_dates |-> {},
          fnames |-> {}, joined_cashflows |-> NewList(h),
          equity_trades_by_trade_id |-> <<>>, fx_trades_by_trade_id |-> <<>>,
          heap |-> HeapStore(h, NewList(h), <<>>)]
    ELSE JoinLoop([client_names |-> {reps[1].client_name},
                   account_ids |-> {reps[1].account_id},
                   start_dates |-> {reps[1].acc_start_date},
                   fnames |-> {reps[1].source_file},
                   joined_cashflows |-> reps[1].cashflows,
                   equity_trades_by_trade_id |-> DictAddAll(<<>>, h[reps[1].equity_trades]),
                   fx_trades_by_trade_id |-> DictAddAll(<<>>, h[reps[1].fx_trades]),
                   heap |-> h],
                  Tail(reps))

\* the locals of join_reports when its loop is over: the sets, the dicts and
\* joined_cashflows, a new list
JoinLoopEnd(h, reps) ==
    JoinLoop([client_names |-> {}, account_ids |-> {}, start_dates |-> {},
              fnames |-> {}, joined_cashflows |-> NewList(h),
              equity_trades_by_trade_id |-> <<>>, fx_trades_by_trade_id |-> <<>>,
              heap |-> HeapStore(h, NewList(h), <<>>)],
             reps)

\* the orders in which the three sets of join_reports may be iterated
IterOrders(h, reps) ==
    LET st == JoinLoopEnd(h, reps)
    IN  [client_names : Orderings(st.client_names),
         account_ids : Orderings(st.account_ids),
         fnames : Orderings(st.fnames)]

\* mutant of join_reports: min(start_dates, default=0), so that no Report at
\* all gives a Report of empty lists
join_reportsDefaultDate(h, reps, ord) ==
    LET st == JoinLoopEnd(h, reps)
        cashflows == SortedCashflows(st.heap[st.joined_cashflows])
        sorted_equity_trade_ids == SortedTradeIds(st.equity_trades_by_trade_id)
        sorted_fx_trade_ids == SortedTradeIds(st.fx_trades_by_trade_id)
        h1 == HeapStore(st.heap, NewList(st.heap), cashflows)
    IN  IF sorted_equity_trade_ids.kind = "raise"
        THEN [out |-> sorted_equity_trade_ids, heap |-> h1]
        ELSE IF sorted_fx_trade_ids.kind = "raise"
        THEN [out |-> sorted_fx_trade_ids, heap |-> h1]
        ELSE LET h2 == HeapStore(h1, NewList(h1),
                           TradesInOrder(st.equity_trades_by_trade_id,
                                         sorted_equity_trade_ids.value))
                 h3 == HeapStore(h2, NewList(h2),
                           TradesInOrder(st.fx_trades_by_trade_id,
                                         sorted_fx_trade_ids.value))
             IN  [out |-> Returned(Report(StrJoin(", ", ord.client_names),
                                          StrJoin(", ", ord.account_ids),
                                          IF st.start_dates = {} THEN 0
                                          ELSE SetMin(st.start_dates),
                                          Len(h1), Len(h2), Len(h3),
                                          StrJoin(", ", ord.fnames))),
                  heap |-> h3]

\* Report.join_reports(reports) on the heap h, the sets iterated in the orders
\* ord: the outcome and the heap after the call
join_reports(h, reps, ord) ==
    LET st == JoinLoopEnd(h, reps)
        cashflows == SortedCashflows(st.heap[st.joined_cashflows])
        sorted_equity_trade_ids == SortedTradeIds(st.equity_trades_by_trade_id)
        sorted_fx_trade_ids == SortedTradeIds(st.fx_trades_by_trade_id)
        h1 == HeapStore(st.heap, NewList(st.heap), cashflows)
    IN  IF sorted_equity_trade_ids.kind = "raise"
        THEN [out |-> sorted_equity_trade_ids, heap |-> h1]
        ELSE IF sorted_fx_trade_ids.kind = "raise"
        THEN [out |-> sorted_fx_trade_ids, heap |-> h1]
        ELSE IF st.start_dates = {}
        THEN [out |-> EmptyMin, heap |-> h1]
        ELSE LET h2 == HeapStore(h1, NewList(h1),
                           TradesInOrder(st.equity_trades_by_trade_id,
                                         sorted_equity_trade_ids.value))
                 h3 == HeapStore(h2, NewList(h2),
                           TradesInOrder(st.fx_trades_by_trade_id,
                                         sorted_fx_trade_ids.value))
             IN  [out |-> Returned(Report(StrJoin(", ", ord.client_names),
                                          StrJoin(", ", ord.account_ids),
                                          SetMin(st.start_dates),
                                          Len(h1), Len(h2), Len(h3),
                                          StrJoin(", ", ord.fnames))),
                  heap |-> h3]

(***************************************************************************)
(* The line items the reports of the model are made of.  The fields that   *)
(* no code of the module reads (trade_datetime, settle_date, the names,    *)
(* comment, status) are left out of the records.                           *)
(***************************************************************************)
CashflowReportLine(date, trading_platform, description, ccy, amt_debit, amt_credit, amt_total) ==
    [date |-> date, trading_platform |-> trading_platform, description |-> description,
     ccy |-> ccy, amt_debit |-> amt_debit, amt_credit |-> amt_credit,
     amt_total |-> amt_total]

EquityTradesReportLine(isin, ccy, side, num_shares, unit_price, amount, accum_unpaid_coupon, broker_fee, exchange_fee, trade_id) ==
    [isin |-> isin, ccy |-> ccy, side |-> side, num_shares |-> num_shares,
     unit_price |-> unit_price, amount |-> amount,
     accum_unpaid_coupon |-> accum_unpaid_coupon, broker_fee |-> broker_fee,
     exchange_fee |-> exchange_fee, trade_id |-> trade_id]

FXTradesReportLine(side, strike, und_ccy, und_amt, acc_ccy, acc_amt, broker_fee, exchange_fee, trade_id) ==
    [side |-> side, strike |-> strike, und_ccy |-> und_ccy, und_amt |-> und_amt,
     acc_ccy |-> acc_ccy, acc_amt |-> acc_amt, broker_fee |-> broker_fee,
     exchange_fee |-> exchange_fee, trade_id |-> trade_id]

\* a purchase of n shares under the given trade_id
EquityBuy(trade_id, n) ==
    EquityTradesReportLine("RU000A0JX0J2", "RUB", BUY, F(n), F(100), F(0 - 100 * n),
                           ZERO, F(-1), F(-1), trade_id)

\* a purchase of n USD for RUB under the given trade_id
FXBuy(trade_id, n) ==
    FXTradesReportLine(BUY, F(90), "USD", F(n), "RUB", F(0 - 90 * n), F(-1), ZERO,
                       trade_id)

\* equity trade ids: "2" twice with different trades, and "10" (before "2"
\* as a string, behind it as a number)
EquityPool == {EquityBuy(<<"2">>, 1), EquityBuy(<<"2">>, 2), EquityBuy(<<"1", "0">>, 1)}

\* FX trade ids: "2", "02" (another string, the same number) and "x" (no
\* number)
FXPool == {FXBuy(<<"2">>, 1), FXBuy(<<"0", "2">>, 1), FXBuy(<<"x">>, 1)}

\* cash flows: two of one sort key, and three that differ from them in the
\* date, in the trading platform and in the currency
CashPool ==
    {CashflowReportLine(2, "Fondovyi rynok", <<"Kupon">>, "RUB", F(5), ZERO, F(5)),
     CashflowReportLine(2, "Fondovyi rynok", DEPOSIT, "RUB", F(7), ZERO, F(7)),
     CashflowReportLine(1, "Valyutnyi rynok", DEPOSIT, "USD", F(3), ZERO, F(3)),
     CashflowReportLine(2, "Valyutnyi rynok", WITHDRAWAL, "RUB", ZERO, F(4), F(-4)),
     CashflowReportLine(2, "Fondovyi rynok", <<"Kupon">>, "EUR", F(1), ZERO, F(1))}

\* the lists of at most n elements of S
SeqsUpTo(S, n) == UNION {[1..k -> S] : k \in 0..n}

\* the elements of a list
Range(s) == {s[i] : i \in 1..Len(s)}

\* the reports of the trade model: at most n equity trades or at most n FX
\* trades
TradeReports(n) ==
    {[cashflows |-> <<>>, equity_trades |-> eq, fx_trades |-> <<>>] :
        eq \in SeqsUpTo(EquityPool, n)}
    \cup
    {[cashflows |-> <<>>, equity_trades |-> <<>>, fx_trades |-> fx] :
        fx \in SeqsUpTo(FXPool, n)}

\* the reports of the cash-flow model: each with the same two trades, and
\* at most n cash flows
CashReports(n) ==
    {[cashflows |-> cfs, equity_trades |-> <<EquityBuy(<<"2">>, 1)>>,
      fx_trades |-> <<FXBuy(<<"2">>, 1)>>] :
        cfs \in SeqsUpTo(CashPool, n)}

\* the header fields of the reports of the header model
ClientNames == {"Ivanov Ivan", "Petrov Petr"}
AccountIds == {"1234ABC", "5678DEF"}
StartDates == {1, 2}
FileNames == {"day1.html", "day2.html"}

\* the reports of the single-report model: every list varies
FullReports ==
    [cashflows : SeqsUpTo(CashPool, MaxLines),
     equity_trades : SeqsUpTo(EquityPool, MaxLines),
     fx_trades : SeqsUpTo(FXPool, MaxLines)]

\* the numbers a line-item constructor is called with
Floats == {F(-1), ZERO, F(1), NaN}

(***************************************************************************)
(* The caller.                                                             *)
(***************************************************************************)
\* traverse_reports, the loop body: reports.append(parse_report(fname, ...)),
\* the parsed Report holding three new lists
AppendReport(client_name, account_id, acc_start_date, lists, fname) ==
    /\ pc = "collect"
    /\ Len(reports) < MaxReports
    /\ heap' = heap \o <<lists.cashflows, lists.equity_trades, lists.fx_trades>>
    /\ reports' = Append(reports,
                         Report(client_name, account_id, acc_start_date,
                                Len(heap) + 1, Len(heap) + 2, Len(heap) + 3, fname))
    /\ UNCHANGED <<result, nested, permuted, pc, line, call>>

\* traverse_reports, the last line: return Report.join_reports(reports)
JoinReports ==
    /\ pc = "collect"
    /\ \E ord \in IterOrders(heap, reports) :
          LET r == join_reports(heap, reports, ord)
          IN  /\ result' = r.out
              /\ heap' = r.heap
    /\ pc' = "joined"
    /\ call' = [args |-> reports, heap |-> heap]
    /\ UNCHANGED <<reports, nested, permuted, line>>

\* the caller merges the first k reports, then the result with the others
JoinNested(k) ==
    /\ pc = "joined"
    /\ k \in 1..(Len(reports) - 1)
    /\ \E ord1 \in IterOrders(heap, SubSeq(reports, 1, k)) :
          LET inner == join_reports(heap, SubSeq(reports, 1, k), ord1)
          IN  IF inner.out.kind = "raise"
              THEN /\ nested' = inner.out
                   /\ heap' = inner.heap
              ELSE LET rest == <<inner.out.value>> \o SubSeq(reports, k + 1, Len(reports))
                   IN  \E ord2 \in IterOrders(inner.heap, rest) :
                          LET outer == join_reports(inner.heap, rest, ord2)
                          IN  /\ nested' = outer.out
                              /\ heap' = outer.heap
    /\ pc' = "nested"
    /\ UNCHANGED <<reports, result, permuted, line, call>>

\* the caller merges the same reports in another order
JoinPermuted(p) ==
    /\ pc = "joined"
    /\ p # [i \in 1..Len(reports) |-> i]
    /\ LET reps == [i \in 1..Len(reports) |-> reports[p[i]]]
       IN  \E ord \in IterOrders(heap, reps) :
              LET r == join_reports(heap, reps, ord)
              IN  /\ permuted' = r.out
                  /\ heap' = r.heap
    /\ pc' = "permuted"
    /\ UNCHANGED <<reports, result, nested, line, call>>

\* the number of trades that the Reports reps hold together
RECURSIVE TradeLinesOf(_)
TradeLinesOf(reps) ==
    IF reps = <<>> THEN 0
    ELSE Len(heap[Head(reps).equity_trades]) + Len(heap[Head(reps).fx_trades])
         + TradeLinesOf(Tail(reps))

Init ==
    /\ heap = <<>>
    /\ reports = <<>>
    /\ result = None
    /\ nested = None
    /\ permuted = None
    /\ pc = "collect"
    /\ line = None
    /\ call = None

\* traverse_reports meets a file with trades
ParseTradeReport ==
    /\ pc = "collect"
    /\ \E lists \in TradeReports(MaxTradeLines - TradeLinesOf(reports)) :
          AppendReport("Ivanov", "1234ABC", 1, lists, "rep.html")

\* the caller merges a prefix first, any prefix
JoinSomePrefixFirst ==
    /\ pc = "joined"
    /\ \E k \in 1..(Len(reports) - 1) : JoinNested(k)

\* the caller merges the Reports in another order, any order
JoinInSomeOrder ==
    /\ pc = "joined"
    /\ \E p \in Orderings(1..Len(reports)) : JoinPermuted(p)

Next ==
    \/ ParseTradeReport
    \/ JoinReports
    \/ JoinSomePrefixFirst
    \/ JoinInSomeOrder

Spec == Init /\ [][Next]_vars

\* the number of cash flows that the Reports reps hold together
RECURSIVE CashLinesOf(_)
CashLinesOf(reps) ==
    IF reps = <<>> THEN 0
    ELSE Len(heap[Head(reps).cashflows]) + CashLinesOf(Tail(reps))

\* traverse_reports meets a file with cash flows
ParseCashReport ==
    /\ pc = "collect"
    /\ \E lists \in CashReports(MaxCashLines - CashLinesOf(reports)) :
          AppendReport("Ivanov", "1234ABC", 1, lists, "rep.html")

\* the model of the cash flows
NextCash ==
    \/ ParseCashReport
    \/ JoinReports

SpecCash == Init /\ [][NextCash]_vars

\* traverse_reports meets a file with no section but its header
ParseHeaderReport ==
    /\ pc = "collect"
    /\ \E client_name \in ClientNames, account_id \in AccountIds,
          acc_start_date \in StartDates, fname \in FileNames :
          AppendReport(client_name, account_id, acc_start_date,
                       [cashflows |-> <<>>, equity_trades |-> <<>>, fx_trades |-> <<>>],
                       fname)

\* the model of the header fields
NextMeta ==
    \/ ParseHeaderReport
    \/ JoinReports

SpecMeta == Init /\ [][NextMeta]_vars

\* traverse_reports meets its only file
ParseOnlyReport ==
    /\ pc = "collect"
    /\ reports = <<>>
    /\ \E lists \in FullReports, client_name \in ClientNames :
          AppendReport(client_name, "1234ABC", 1, lists, "rep.html")

\* the model of the merge of one Report
NextSingle ==
    \/ ParseOnlyReport
    \/ JoinReports

SpecSingle == Init /\ [][NextSingle]_vars

\* the caller constructs an EquityTradesReportLine: the dataclass stores the
\* fields and runs __post_init__
ConstructEquityTrade(side, num_shares, unit_price, amount, accum_unpaid_coupon, broker_fee, exchange_fee, trade_id) ==
    LET self == EquityTradesReportLine("RU000A0JX0J2", "RUB", side, num_shares,
                                       unit_price, amount, accum_unpaid_coupon,
                                       broker_fee, exchange_fee, trade_id)
    IN  /\ pc = "collect"
        /\ call' = [args |-> self, heap |-> heap]
        /\ line' = EquityPostInit(self)
        /\ pc' = "constructed"
        /\ UNCHANGED <<heap, reports, result, nested, permuted>>

\* the caller constructs an FXTradesReportLine
ConstructFXTrade(side, strike, und_amt, acc_amt, broker_fee, exchange_fee, trade_id) ==
    LET self == FXTradesReportLine(side, strike, "USD", und_amt, "RUB", acc_amt,
                                   broker_fee, exchange_fee, trade_id)
    IN  /\ pc = "collect"
        /\ call' = [args |-> self, heap |-> heap]
        /\ line' = FXPostInit(self)
        /\ pc' = "constructed"
        /\ UNCHANGED <<heap, reports, result, nested, permuted>>

\* an EquityTradesReportLine is constructed from any fields
NewEquityTrade ==
    \E side \in Side, num_shares \in Floats, unit_price \in Floats, amount \in Floats,
       accum_unpaid_coupon \in Floats, broker_fee \in Floats, exchange_fee \in Floats,
       trade_id \in {<<"2">>, <<"1", "0">>} :
       ConstructEquityTrade(side, num_shares, unit_price, amount, accum_unpaid_coupon,
                            broker_fee, exchange_fee, trade_id)

NextEquity == NewEquityTrade

SpecEquity == Init /\ [][NextEquity]_vars

\* an FXTradesReportLine is constructed from any fields
NewFXTrade ==
    \E side \in Side, strike \in Floats, und_amt \in Floats, acc_amt \in Floats,
       broker_fee \in Floats, exchange_fee \in Floats,
       trade_id \in {<<"2">>, <<"1", "0">>} :
       ConstructFXTrade(side, strike, und_amt, acc_amt, broker_fee, exchange_fee,
                        trade_id)

NextFX == NewFXTrade

SpecFX == Init /\ [][NextFX]_vars

(***************************************************************************)
(* Float arithmetic: the result is NaN as soon as an operand is.  The      *)
(* numbers of the model are whole and small, so that no sum or product is  *)
(* rounded.                                                                *)
(***************************************************************************)
FAdd(a, b) == IF a.nan \/ b.nan THEN NaN ELSE F(a.v + b.v)
FSub(a, b) == IF a.nan \/ b.nan THEN NaN ELSE F(a.v - b.v)
FMul(a, b) == IF a.nan \/ b.nan THEN NaN ELSE F(a.v * b.v)
FNeg(a) == IF a.nan THEN NaN ELSE F(0 - a.v)
\* a == b on floats: false when either side is NaN
FEq(a, b) == ~a.nan /\ ~b.nan /\ a.v = b.v

(***************************************************************************)
(* The reducers of tests/test_reports_parser.py.  A Mapping they build is  *)
(* a function from its keys to its values; {} is the function of no key.   *)
(***************************************************************************)
EmptyDict == <<>>

\* if k not in d: d[k] = v else: d[k] += v
Accumulate(d, k, v) ==
    IF k \in DOMAIN d THEN [d EXCEPT ![k] = FAdd(@, v)] ELSE d @@ (k :> v)

\* mutant of PruneZeros: the test is d[k] <= 0.0
PruneNonPositive(d) == [k \in {j \in DOMAIN d : ~FLe(d[j], ZERO)} |-> d[k]]

\* for k in list(d.keys()): if d[k] == 0.0: del d[k]
PruneZeros(d) == [k \in {j \in DOMAIN d : ~FEq(d[j], ZERO)} |-> d[k]]

\* the `for eq_tr in agg_rep.equity_trades` loop of get_eq_totals
RECURSIVE EqTotalsLoop(_, _)
EqTotalsLoop(st, equity_trades) ==
    IF equity_trades = <<>> THEN st
    ELSE LET eq_tr == Head(equity_trades)
             paid_or_received_wo_fees == FAdd(eq_tr.amount, eq_tr.accum_unpaid_coupon)
         IN  EqTotalsLoop(
                 [isin_to_num_shares |->
                      Accumulate(st.isin_to_num_shares, eq_tr.isin, eq_tr.num_shares),
                  ccy_to_amount |->
                      Accumulate(st.ccy_to_amount, eq_tr.ccy, paid_or_received_wo_fees),
                  fees_dom |-> FAdd(FAdd(st.fees_dom, eq_tr.broker_fee), eq_tr.exchange_fee)],
                 Tail(equity_trades))

\* get_eq_totals(agg_rep, domestic) on the heap h: the outcome, a tuple
get_eq_totals(h, agg_rep, domestic) ==
    LET st == EqTotalsLoop([isin_to_num_shares |-> EmptyDict, ccy_to_amount |-> EmptyDict,
                            fees_dom |-> ZERO],
                           h[agg_rep.equity_trades])
        ccy_to_amount == Accumulate(st.ccy_to_amount, domestic, st.fees_dom)
    IN  Returned(<<PruneZeros(st.isin_to_num_shares), PruneZeros(ccy_to_amount),
                   st.fees_dom>>)

\* the equity trades in a merged Report at most
MaxEqTrades == 3

\* the domestic currencies the reducers are called with
Domestic == {"RUB", "USD"}

\* an equity trade of n shares: amount and coupon are given with their signs
EqTrade(isin, ccy, side, n, amount, coupon, broker_fee, exchange_fee) ==
    EquityTradesReportLine(isin, ccy, side, n, F(100), F(amount), F(coupon),
                           F(broker_fee), F(exchange_fee), <<"1">>)

\* trades that close a position (10 bought, 10 sold), that bring a currency
\* to zero with or without the fees, and one whose share count is NaN; each
\* is a record that __post_init__ lets through
EqTotalsPool ==
    {tr \in {EqTrade("RU000A0JX0J2", "RUB", BUY, F(10), -100, 0, -1, 0),
             EqTrade("RU000A0JX0J2", "RUB", SELL, F(-10), 101, 0, 0, 0),
             EqTrade("RU000A0JX0J2", "RUB", SELL, F(-10), 100, 0, 0, 0),
             EqTrade("RU000A0JX0J2", "RUB", BUY, F(5), -50, 0, 0, 0),
             EqTrade("US0378331005", "USD", BUY, F(5), -50, -2, 0, -1),
             EqTrade("US0378331005", "USD", SELL, F(-5), 50, 2, 0, 0),
             EqTrade("US0378331005", "RUB", SELL, F(-5), 52, 0, 0, 0),
             EqTrade("US0378331005", "USD", BUY, NaN, -50, 0, 0, 0)} :
        EquityPostInit(tr).kind = "ok"}

\* the caller computes the equity totals of a Report
GetEqTotals(equity_trades, domestic) ==
    LET agg_rep == Report("Ivanov", "1234ABC", 1, Len(heap) + 1, Len(heap) + 2,
                          Len(heap) + 3, "rep.html")
        h == heap \o <<<<>>, equity_trades, <<>>>>
    IN  /\ pc = "collect"
        /\ heap' = h
        /\ call' = [args |-> <<agg_rep, domestic>>, heap |-> h]
        /\ result' = get_eq_totals(h, agg_rep, domestic)
        /\ pc' = "eq_totals"
        /\ UNCHANGED <<reports, nested, permuted, line>>

\* the equity totals of any Report, in any domestic currency
EqTotalsOfSomeReport ==
    \E equity_trades \in SeqsUpTo(EqTotalsPool, MaxEqTrades), domestic \in Domestic :
        GetEqTotals(equity_trades, domestic)

NextEqTotals == EqTotalsOfSomeReport

SpecEqTotals == Init /\ [][NextEqTotals]_vars

\* d[trading_platform][ccy] gets v, the inner dict being made when the
\* trading platform is new
AccumulateNested(d, trading_platform, ccy, v) ==
    LET ccy_to_total == IF trading_platform \in DOMAIN d THEN d[trading_platform]
                        ELSE EmptyDict
    IN  [k \in DOMAIN d \cup {trading_platform} |->
            IF k = trading_platform THEN Accumulate(ccy_to_total, ccy, v) ELSE d[k]]

\* mutant of IsMyMoneyInflow: the transfer is tested with ==, as the other two
IsMyMoneyInflowExact(desc) == desc = DEPOSIT \/ desc = WITHDRAWAL \/ desc = TRANSFER

\* the test on desc of get_cash_flow_totals
IsMyMoneyInflow(desc) == desc = DEPOSIT \/ desc = WITHDRAWAL \/ Contains(TRANSFER, desc)

\* the `for cash_flow in agg_rep.cashflows` loop of get_cash_flow_totals
RECURSIVE CashTotalsLoop(_, _)
CashTotalsLoop(st, cashflows) ==
    IF cashflows = <<>> THEN st
    ELSE LET cash_flow == Head(cashflows)
             trading_platform == cash_flow.trading_platform
             ccy == cash_flow.ccy
         IN  CashTotalsLoop(
                 [trading_platform_to_ccy_to_cf_total |->
                      AccumulateNested(st.trading_platform_to_ccy_to_cf_total,
                                       trading_platform, ccy, cash_flow.amt_total),
                  trading_platform_to_ccy_to_my_money_inflow |->
                      IF IsMyMoneyInflow(cash_flow.description)
                      THEN AccumulateNested(st.trading_platform_to_ccy_to_my_money_inflow,
                                            trading_platform, ccy, cash_flow.amt_total)
                      ELSE st.trading_platform_to_ccy_to_my_money_inflow],
                 Tail(cashflows))

\* get_cash_flow_totals(agg_rep) on the heap h: the outcome, a pair of dicts
get_cash_flow_totals(h, agg_rep) ==
    LET st == CashTotalsLoop([trading_platform_to_ccy_to_cf_total |-> EmptyDict,
                              trading_platform_to_ccy_to_my_money_inflow |-> EmptyDict],
                             h[agg_rep.cashflows])
    IN  Returned(<<st.trading_platform_to_ccy_to_cf_total,
                   st.trading_platform_to_ccy_to_my_money_inflow>>)

\* the cash flows in a merged Report at most
MaxCashflows == 3

\* a cash flow of the given net amount
Cashflow(trading_platform, description, ccy, amt) ==
    CashflowReportLine(1, trading_platform, description, ccy,
                       IF amt > 0 THEN F(amt) ELSE ZERO,
                       IF amt < 0 THEN F(0 - amt) ELSE ZERO, F(amt))

\* deposits, a withdrawal, a transfer whose description goes on after
\* "Perevod d/s", a deposit whose description goes on after "Zachislenie
\* d/s", and coupons, on two trading platforms and in two currencies
CashTotalsPool ==
    {Cashflow("Fondovyi rynok", DEPOSIT, "RUB", 7),
     Cashflow("Fondovyi rynok", <<"Kupon">>, "RUB", 5),
     Cashflow("Fondovyi rynok", WITHDRAWAL, "RUB", -7),
     Cashflow("Fondovyi rynok", <<"Kupon">>, "USD", 1),
     Cashflow("Valyutnyi rynok", DEPOSIT, "USD", 3),
     Cashflow("Valyutnyi rynok", TRANSFER \o <<"mezhdu", "ploshchadkami">>, "RUB", -4),
     Cashflow("Valyutnyi rynok", DEPOSIT \o <<"(vozvrat)">>, "RUB", 2),
     Cashflow("Valyutnyi rynok", <<"Kupon">>, "RUB", 1)}

\* the caller computes the cash-flow totals of a Report
GetCashFlowTotals(cashflows) ==
    LET agg_rep == Report("Ivanov", "1234ABC", 1, Len(heap) + 1, Len(heap) + 2,
                          Len(heap) + 3, "rep.html")
        h == heap \o <<cashflows, <<>>, <<>>>>
    IN  /\ pc = "collect"
        /\ heap' = h
        /\ call' = [args |-> <<agg_rep>>, heap |-> h]
        /\ result' = get_cash_flow_totals(h, agg_rep)
        /\ pc' = "cash_totals"
        /\ UNCHANGED <<reports, nested, permuted, line>>

\* the cash-flow totals of any Report
CashTotalsOfSomeReport ==
    \E cashflows \in SeqsUpTo(CashTotalsPool, MaxCashflows) : GetCashFlowTotals(cashflows)

NextCashTotals == CashTotalsOfSomeReport

SpecCashTotals == Init /\ [][NextCashTotals]_vars

\* KeyError(key): d[key] of a dict without that key
KeyError(key) == [kind |-> "raise", exc |-> "KeyError", what |-> key, trade_id |-> <<>>]
\* ZeroDivisionError("float division by zero")
ZeroDivisionError ==
    [kind |-> "raise", exc |-> "ZeroDivisionError", what |-> "float division by zero",
     trade_id |-> <<>>]

\* a / b on floats, b not 0.0: the quotient is kept as the pair of its terms
FDiv(a, b) ==
    IF a.nan \/ b.nan THEN [nan |-> TRUE, num |-> 0, den |-> 1]
    ELSE [nan |-> FALSE, num |-> a.v, den |-> b.v]

\* the keys of a dict in the order they were inserted, after key is set
Inserted(keys, key) ==
    IF \E i \in 1..Len(keys) : keys[i] = key THEN keys ELSE Append(keys, key)

\* the `for fx_tr in agg_rep.fx_trades` loop of get_fx_totals; keys is
\* ccy_to_amt.keys()
RECURSIVE FxTotalsLoop(_, _)
FxTotalsLoop(st, fx_trades) ==
    IF fx_trades = <<>> THEN st
    ELSE LET fx_tr == Head(fx_trades)
             und == fx_tr.und_ccy
             acc == fx_tr.acc_ccy
             for_wa == IF und \in DOMAIN st.ccy_to_amt_for_wa THEN st.ccy_to_amt_for_wa
                       ELSE st.ccy_to_amt_for_wa @@ (und :> ZERO)
         IN  FxTotalsLoop(
                 [ccy_to_amt |->
                      Accumulate(Accumulate(st.ccy_to_amt, und, fx_tr.und_amt),
                                 acc, fx_tr.acc_amt),
                  keys |-> Inserted(Inserted(st.keys, und), acc),
                  fees_dom |-> FAdd(FAdd(st.fees_dom, fx_tr.broker_fee), fx_tr.exchange_fee),
                  ccy_to_amt_for_wa |->
                      [for_wa EXCEPT ![und] = FAdd(@, FMul(fx_tr.und_amt, fx_tr.strike))]],
                 Tail(fx_trades))

\* the `for ccy in ccy_to_amt.keys()` loop of get_fx_totals: ccy_to_strike_wa,
\* or the exception of the first currency that raises one
RECURSIVE StrikeLoop(_, _, _, _, _)
StrikeLoop(keys, domestic, ccy_to_amt, ccy_to_amt_for_wa, ccy_to_strike_wa) ==
    IF keys = <<>> THEN Returned(ccy_to_strike_wa)
    ELSE LET ccy == Head(keys)
         IN  IF ccy = domestic
             THEN StrikeLoop(Tail(keys), domestic, ccy_to_amt, ccy_to_amt_for_wa,
                             ccy_to_strike_wa)
             ELSE IF ccy \notin DOMAIN ccy_to_amt_for_wa THEN KeyError(ccy)
             ELSE IF FEq(ccy_to_amt[ccy], ZERO) THEN ZeroDivisionError
             ELSE StrikeLoop(Tail(keys), domestic, ccy_to_amt, ccy_to_amt_for_wa,
                             ccy_to_strike_wa @@
                             (ccy :> FDiv(ccy_to_amt_for_wa[ccy], ccy_to_amt[ccy])))

\* get_fx_totals(agg_rep, domestic) on the heap h: the outcome, a pair, and
\* the weighted-average strikes that it logged
get_fx_totals(h, agg_rep, domestic) ==
    LET st == FxTotalsLoop([ccy_to_amt |-> EmptyDict, keys |-> <<>>, fees_dom |-> ZERO,
                            ccy_to_amt_for_wa |-> EmptyDict],
                           h[agg_rep.fx_trades])
        ccy_to_amt == Accumulate(st.ccy_to_amt, domestic, st.fees_dom)
        keys == Inserted(st.keys, domestic)
        ccy_to_strike_wa == StrikeLoop(keys, domestic, ccy_to_amt, st.ccy_to_amt_for_wa,
                                       EmptyDict)
    IN  IF ccy_to_strike_wa.kind = "raise" THEN ccy_to_strike_wa
        ELSE [kind |-> "ok", value |-> <<ccy_to_amt, st.fees_dom>>,
              logged |-> ccy_to_strike_wa.value]

\* the FX trades in a merged Report at most
MaxFxTrades == 3

\* an FX trade at a strike, und_amt and acc_amt given with their signs
FxTrade(side, strike, und_ccy, und_amt, acc_ccy, acc_amt, broker_fee, exchange_fee) ==
    FXTradesReportLine(side, F(strike), und_ccy, F(und_amt), acc_ccy, F(acc_amt),
                       broker_fee, exchange_fee, <<"1">>)

\* purchases and sales of USD for RUB, of EUR for USD and of EUR for RUB,
\* and a purchase whose fee is NaN; each is a record that __post_init__
\* lets through
FxTotalsPool ==
    {tr \in {FxTrade(BUY, 90, "USD", 2, "RUB", -180, F(-1), ZERO),
             FxTrade(SELL, 95, "USD", -2, "RUB", 190, ZERO, F(-1)),
             FxTrade(BUY, 80, "USD", 1, "RUB", -80, ZERO, ZERO),
             FxTrade(BUY, 2, "EUR", 1, "USD", -2, ZERO, ZERO),
             FxTrade(SELL, 2, "EUR", -1, "USD", 2, F(-1), ZERO),
             FxTrade(BUY, 100, "EUR", 1, "RUB", -100, ZERO, ZERO),
             FxTrade(BUY, 90, "USD", 1, "RUB", -90, NaN, ZERO)} :
        FXPostInit(tr).kind = "ok"}

\* the caller computes the FX totals of a Report
GetFxTotals(fx_trades, domestic) ==
    LET agg_rep == Report("Ivanov", "1234ABC", 1, Len(heap) + 1, Len(heap) + 2,
                          Len(heap) + 3, "rep.html")
        h == heap \o <<<<>>, <<>>, fx_trades>>
    IN  /\ pc = "collect"
        /\ heap' = h
        /\ call' = [args |-> <<agg_rep, domestic>>, heap |-> h]
        /\ result' = get_fx_totals(h, agg_rep, domestic)
        /\ pc' = "fx_totals"
        /\ UNCHANGED <<reports, nested, permuted, line>>

\* the FX totals of any Report, in any domestic currency
FxTotalsOfSomeReport ==
    \E fx_trades \in SeqsUpTo(FxTotalsPool, MaxFxTrades), domestic \in Domestic :
        GetFxTotals(fx_trades, domestic)

NextFxTotals == FxTotalsOfSomeReport

SpecFxTotals == Init /\ [][NextFxTotals]_vars

(***************************************************************************)
(* The document that parse_report reads.  soup is the sequence of the tags *)
(* of the document that stand side by side, a <p> with its text and its    *)
(* contents, or a <table> with its rows; a row is the sequence of the      *)
(* texts of its <td> cells.  A text of the document is the sequence of its *)
(* tokens: a token is one character where the code looks at characters (a *)
(* digit, a sign, a dot, a blank, a line end, a letter of a currency pair) *)
(* and a whole word elsewhere.                                             *)
(***************************************************************************)
P(text, contents) == [name |-> "p", text |-> text, contents |-> contents]
Table(rows) == [name |-> "table", rows |-> rows]
\* an element of tag.contents: a text, or a <br/>
Text(text) == [name |-> "#text", text |-> text]
Br == [name |-> "br", text |-> <<>>]
\* a <p> that holds a title and nothing else
TitleP(title) == P(title, <<Text(title)>>)

\* an exception that names no trade
Raise(exc, what) == [kind |-> "raise", exc |-> exc, what |-> what, trade_id |-> <<>>]
\* None.attr
NoneHasNoAttribute(attr) == Raise("AttributeError", <<"'NoneType' object has no attribute", attr>>)
\* None[key]
NoneNotSubscriptable == Raise("TypeError", <<"'NoneType' object is not subscriptable">>)
\* a_list[None]
ListIndexNone == Raise("TypeError", <<"list indices must be integers or slices, not NoneType">>)
\* a_list[i] with i >= len(a_list)
ListIndexOutOfRange == Raise("IndexError", <<"list index out of range">>)

\* the outcome of f on the value of the outcome o, or the exception that o is
Then(o, f(_)) == IF o.kind = "raise" THEN o ELSE f(o.value)

\* the first exception among the outcomes os, that were computed one after
\* the other; None when each returned
FirstRaised(os) ==
    IF \E i \in 1..Len(os) : os[i].kind = "raise"
    THEN os[CHOOSE i \in 1..Len(os) :
                os[i].kind = "raise" /\ \A j \in 1..(i - 1) : os[j].kind # "raise"]
    ELSE None

\* soup.find(lambda tag: tag.name == "p" and title in tag.get_text()): the
\* position of the first such tag, 0 for None
Find(soup, title) ==
    LET found == {i \in 1..Len(soup) : soup[i].name = "p" /\ Contains(title, soup[i].text)}
    IN  IF found = {} THEN 0 ELSE SetMin(found)

\* soup[p].find_next_sibling("table"): the position of the tag, 0 for None
FindNextSiblingTable(soup, p) ==
    LET found == {i \in (p + 1)..Len(soup) : soup[i].name = "table"}
    IN  IF found = {} THEN 0 ELSE SetMin(found)

\* s[a:b] of Python
Slice(s, a, b) == SubSeq(s, a + 1, IF b < Len(s) THEN b ELSE Len(s))

\* an index of a column: <<>> is None, <<i>> is the int i (counted from 0)
NoneIdx == <<>>
\* the value of idx_<label> when the `for idx, col in enumerate(header)` loop
\* is over: the last column of that text
ColumnIndex(header, label) ==
    LET found == {i \in 1..Len(header) : header[i] = label}
    IN  IF found = {} THEN NoneIdx
        ELSE <<(CHOOSE i \in found : \A j \in found : j <= i) - 1>>

\* cols[idx].get_text()
Cell(cols, idx) ==
    IF idx = NoneIdx THEN ListIndexNone
    ELSE IF idx[1] >= Len(cols) THEN ListIndexOutOfRange
    ELSE Returned(cols[idx[1] + 1])

\* int(s) of a text, as an outcome
IntOf(s) == IF PyInt(s).ok THEN Returned(PyInt(s).v) ELSE InvalidLiteral(s)

\* the days of a month of a year
DaysInMonth(year, month) ==
    IF month \in {4, 6, 9, 11} THEN 30
    ELSE IF month # 2 THEN 31
    ELSE IF year % 4 = 0 /\ (year % 100 # 0 \/ year % 400 = 0) THEN 29
    ELSE 28

\* parse_date(date): the date is the number yyyymmdd
parse_date(date) ==
    LET day == IntOf(Slice(date, 0, 2))
        month == IntOf(Slice(date, 3, 5))
        year == IntOf(Slice(date, 6, 10))
    IN  IF FirstRaised(<<day, month, year>>) # None THEN FirstRaised(<<day, month, year>>)
        ELSE IF year.value \notin 1..9999 THEN Raise("ValueError", <<"year is out of range">>)
        ELSE IF month.value \notin 1..12 THEN Raise("ValueError", <<"month must be in 1..12">>)
        ELSE IF day.value \notin 1..DaysInMonth(year.value, month.value)
        THEN Raise("ValueError", <<"day is out of range for month">>)
        ELSE Returned(year.value * 10000 + month.value * 100 + day.value)

\* parse_datetime(date, time): the numbers yyyymmdd and HHMMSS
parse_datetime(date, time) ==
    LET day == IntOf(Slice(date, 0, 2))
        month == IntOf(Slice(date, 3, 5))
        year == IntOf(Slice(date, 6, 10))
        hh24 == IntOf(Slice(time, 0, 2))
        mm == IntOf(Slice(time, 3, 5))
        ss == IntOf(Slice(time, 6, 8))
        raised == FirstRaised(<<day, month, year, hh24, mm, ss>>)
    IN  IF raised # None THEN raised
        ELSE IF year.value \notin 1..9999 THEN Raise("ValueError", <<"year is out of range">>)
        ELSE IF month.value \notin 1..12 THEN Raise("ValueError", <<"month must be in 1..12">>)
        ELSE IF day.value \notin 1..DaysInMonth(year.value, month.value)
        THEN Raise("ValueError", <<"day is out of range for month">>)
        ELSE IF hh24.value \notin 0..23 THEN Raise("ValueError", <<"hour must be in 0..23">>)
        ELSE IF mm.value \notin 0..59 THEN Raise("ValueError", <<"minute must be in 0..59">>)
        ELSE IF ss.value \notin 0..59 THEN Raise("ValueError", <<"second must be in 0..59">>)
        ELSE Returned(<<year.value * 10000 + month.value * 100 + day.value,
                        hh24.value * 10000 + mm.value * 100 + ss.value>>)

\* parse_num(str_num): float(str_num.replace(' ', '')).  The texts of the
\* model are whole numbers, "nan", and texts that are no number at all.
parse_num(str_num) ==
    LET NotBlank(c) == c # " "
        s == SelectSeq(str_num, NotBlank)
        signed == s # <<>> /\ Head(s) \in {"-", "+"}
        body == IF signed THEN Tail(s) ELSE s
    IN  IF body = <<"n", "a", "n">> THEN Returned(NaN)
        ELSE IF PyInt(s).ok THEN Returned(F(PyInt(s).v))
        ELSE Raise("ValueError", <<"could not convert string to float">>)

\* the texts of the two sides
POKUPKA == <<"Pokupka">>
PRODAZHA == <<"Prodazha">>

\* parse_side(str_side)
parse_side(str_side) ==
    IF str_side = POKUPKA THEN Returned(BUY)
    ELSE IF str_side = PRODAZHA THEN Returned(SELL)
    ELSE Raise("ValueError", <<"Unknown side">> \o str_side)

(***************************************************************************)
(* parse_cashflows                                                         *)
(***************************************************************************)
CASHFLOWS_TITLE == <<"Dvizhenie", "denezhnykh", "sredstv", "za", "period">>
ITOGO == <<"Itogo">>

\* the column texts that parse_cashflows knows
COL_DATE == <<"Data">>
COL_TRADING_PLATFORM == <<"Torgovaya", "ploshchadka">>
COL_OPERATION_DESCRIPTION == <<"Opisanie", "operatsii">>
COL_CCY == <<"Valyuta">>
COL_AMT_DEBIT == <<"Summa", "zachisleniya">>
COL_AMT_CREDIT == <<"Summa", "spisaniya">>

\* mutant of IsTradeFlow: every "Perevod d/s" is left out
IsTradeFlowOrTransfer(description) ==
    \/ Contains(TRADE, description)
    \/ Contains(EXCHANGE_FEE, description)
    \/ Contains(BROKER_FEE, description)
    \/ Contains(TRANSFER, description)

\* the description is one that parse_cashflows leaves out
IsTradeFlow(description) ==
    \/ Contains(TRADE, description)
    \/ Contains(EXCHANGE_FEE, description)
    \/ Contains(BROKER_FEE, description)
    \/ Contains(CLEARING_TRANSFER, description)

\* the body of the loop over the rows, for a row that is not skipped: the
\* list `cashflows` after it, or the exception
CashRow(idx, cols, cashflows) ==
    LET date == Then(Cell(cols, idx.date), parse_date)
        trading_platform == Cell(cols, idx.trading_platform)
        description == Cell(cols, idx.operation_description)
        ccy == Cell(cols, idx.ccy)
        amt_debit == Then(Cell(cols, idx.amt_debit), parse_num)
        amt_credit == Then(Cell(cols, idx.amt_credit), parse_num)
        raised == FirstRaised(<<date, trading_platform, description, ccy, amt_debit,
                                amt_credit>>)
        amt_total == FSub(amt_debit.value, amt_credit.value)
    IN  IF raised # None THEN raised
        ELSE IF ~IsTradeFlow(description.value)
        THEN Returned(Append(cashflows,
                             CashflowReportLine(date.value, trading_platform.value,
                                                description.value, ccy.value,
                                                amt_debit.value, amt_credit.value,
                                                amt_total)))
        ELSE Returned(cashflows)

\* for row in cash_table_rows[1:]
RECURSIVE CashRowsLoop(_, _, _)
\* the loop after a row: it ends when the row raised, and goes on if not
CashRowsAfter(idx, rows, after) ==
    IF after.kind = "raise" THEN after ELSE CashRowsLoop(idx, rows, after.value)

CashRowsLoop(idx, rows, cashflows) ==
    IF rows = <<>> THEN Returned(cashflows)
    ELSE LET cols == Head(rows)
         IN  IF cols = <<>> THEN ListIndexOutOfRange
             ELSE IF Contains(ITOGO, cols[1]) THEN CashRowsLoop(idx, Tail(rows), cashflows)
             ELSE CashRowsAfter(idx, Tail(rows), CashRow(idx, cols, cashflows))

\* parse_cashflows(soup): the list, or the exception
parse_cashflows(soup) ==
    LET p_of_cashflows == Find(soup, CASHFLOWS_TITLE)
        table == FindNextSiblingTable(soup, p_of_cashflows)
    IN  IF p_of_cashflows = 0 THEN Returned(<<>>)
        ELSE IF table = 0 THEN NoneHasNoAttribute("find_all")
        ELSE IF soup[table].rows = <<>> THEN ListIndexOutOfRange
        ELSE LET cash_table_header == soup[table].rows[1]
                 idx == [date |-> ColumnIndex(cash_table_header, COL_DATE),
                         trading_platform |->
                             ColumnIndex(cash_table_header, COL_TRADING_PLATFORM),
                         operation_description |->
                             ColumnIndex(cash_table_header, COL_OPERATION_DESCRIPTION),
                         ccy |-> ColumnIndex(cash_table_header, COL_CCY),
                         amt_debit |-> ColumnIndex(cash_table_header, COL_AMT_DEBIT),
                         amt_credit |-> ColumnIndex(cash_table_header, COL_AMT_CREDIT)]
             IN  CashRowsLoop(idx, Tail(soup[table].rows), <<>>)

\* the rows of a cash-flow table at most, its header apart
MaxCashRows == 3

\* texts of cells
DAY1 == <<"0", "1", ".", "0", "2", ".", "2", "0", "2", "1">>
DAY2 == <<"2", "8", ".", "0", "2", ".", "2", "0", "2", "1">>
NUM_0 == <<"0">>
NUM_500 == <<"5", "0", "0">>
NUM_1000 == <<"1", " ", "0", "0", "0">>
NO_NUM == <<"-">>
FR == <<"Fondovyi", "rynok">>
VR == <<"Valyutnyi", "rynok">>
RUB == <<"RUB">>

\* the header of the cash-flow table, in the order of the statements
CashHeader ==
    <<COL_DATE, COL_TRADING_PLATFORM, COL_OPERATION_DESCRIPTION, COL_CCY, COL_AMT_DEBIT,
      COL_AMT_CREDIT>>

\* rows under CashHeader: a deposit, a coupon, a transfer between the
\* platforms; a trade, a broker's fee and a clearing transfer, which are left
\* out; a subtotal, which is skipped; and a trade whose amount is no number
CashRowPool ==
    {<<DAY1, FR, DEPOSIT, RUB, NUM_1000, NUM_0>>,
     <<DAY2, FR, <<"Kupon">>, RUB, NUM_500, NUM_0>>,
     <<DAY1, VR, TRANSFER \o <<"mezhdu", "ploshchadkami">>, RUB, NUM_0, NUM_500>>,
     <<DAY1, FR, TRADE \o <<"ot">> \o DAY1, RUB, NUM_500, NUM_1000>>,
     <<DAY2, FR, BROKER_FEE, RUB, NUM_0, NUM_500>>,
     <<DAY2, VR, CLEARING_TRANSFER, RUB, NUM_500, NUM_0>>,
     <<ITOGO \o <<"po", "ploshchadke">>, FR, <<>>, RUB, NUM_1000, NUM_500>>,
     <<DAY2, FR, TRADE, RUB, NO_NUM, NUM_0>>}

\* the caller parses the cash flows of a document
ParseCashflows(soup) ==
    /\ pc = "collect"
    /\ call' = [args |-> <<soup>>, heap |-> heap]
    /\ result' = parse_cashflows(soup)
    /\ pc' = "cashflows_parsed"
    /\ UNCHANGED <<heap, reports, nested, permuted, line>>

\* the cash flows of a document with any rows in its cash-flow table
ParseSomeCashRows ==
    \E rows \in SeqsUpTo(CashRowPool, MaxCashRows) :
        ParseCashflows(<<TitleP(CASHFLOWS_TITLE),
                         Table(<<CashHeader>> \o rows)>>)

NextCashRows == ParseSomeCashRows

SpecCashRows == Init /\ [][NextCashRows]_vars

(***************************************************************************)
(* parse_equity_trades                                                     *)
(***************************************************************************)
EQUITY_TRADES_TITLE == <<"Sdelki", "kupli/prodazhi", "tsennykh", "bumag">>
PLOSHCHADKA == <<"Ploshchadka">>

\* the column texts that parse_equity_trades knows ("Valyuta", "Komissiya
\* Brokera" and "Komissiya Birzhi" are COL_CCY, BROKER_FEE and EXCHANGE_FEE)
COL_TRADE_DATE == <<"Data", "zaklyucheniya">>
COL_SETTLE_DATE == <<"Data", "raschetov">>
COL_TRADE_TIME == <<"Vremya", "zaklyucheniya">>
COL_SECURITY_NAME == <<"Naimenovanie", "TsB">>
COL_ISIN == <<"Kod", "TsB">>
COL_SIDE == <<"Vid">>
COL_NOTIONAL == <<"Kolichestvo,", "sht.">>
COL_UNIT_PRICE == <<"Tsena**">>
COL_AMOUNT == <<"Summa">>
COL_ACCUM_UNPAID_COUPON == <<"NKD">>
COL_TRADE_ID == <<"Nomer", "sdelki">>
COL_COMMENT == <<"Kommentarii">>
COL_STATUS == <<"Status", "sdelki*****">>

\* the outcome of two texts read one after the other and then parsed by f
Then2(a, b, f(_, _)) ==
    IF a.kind = "raise" THEN a ELSE IF b.kind = "raise" THEN b ELSE f(a.value, b.value)

\* x if side == Side.BUY else y
SignedBySide(side, x, y) == IF side = BUY THEN x ELSE y

\* the body of the loop over the rows, for a row that is not skipped: the
\* list `equity_trades` after it, or the exception
EquityRow(idx, cols, equity_trades) ==
    LET trade_datetime == Then2(Cell(cols, idx.trade_date), Cell(cols, idx.trade_time),
                                parse_datetime)
        settle_date == Then(Cell(cols, idx.settle_date), parse_date)
        security_name == Cell(cols, idx.security_name)
        isin == Cell(cols, idx.isin)
        ccy == Cell(cols, idx.ccy)
        side == Then(Cell(cols, idx.side), parse_side)
        num_shares_positive == Then(Cell(cols, idx.notional), parse_num)
        unit_price == Then(Cell(cols, idx.unit_price), parse_num)
        amount_positive == Then(Cell(cols, idx.amount), parse_num)
        accum_unpaid_coupon_positive == Then(Cell(cols, idx.accum_unpaid_coupon), parse_num)
        broker_fee == Then(Cell(cols, idx.broker_fee), parse_num)
        exchange_fee == Then(Cell(cols, idx.exchange_fee), parse_num)
        trade_id == Cell(cols, idx.trade_id)
        comment == Cell(cols, idx.comment)
        status == Cell(cols, idx.status)
        raised == FirstRaised(<<trade_datetime, settle_date, security_name, isin, ccy, side,
                                num_shares_positive, unit_price, amount_positive,
                                accum_unpaid_coupon_positive, broker_fee, exchange_fee,
                                trade_id, comment, status>>)
        entry == EquityPostInit(
                     EquityTradesReportLine(
                         isin.value, ccy.value, side.value,
                         SignedBySide(side.value, num_shares_positive.value,
                                      FNeg(num_shares_positive.value)),
                         unit_price.value,
                         SignedBySide(side.value, FNeg(amount_positive.value),
                                      amount_positive.value),
                         SignedBySide(side.value, FNeg(accum_unpaid_coupon_positive.value),
                                      accum_unpaid_coupon_positive.value),
                         FNeg(broker_fee.value), FNeg(exchange_fee.value), trade_id.value))
    IN  IF raised # None THEN raised
        ELSE IF entry.kind = "raise" THEN entry
        ELSE Returned(Append(equity_trades, entry.value))

\* for row in equity_trades_table_rows[1:]
RECURSIVE EquityRowsLoop(_, _, _)
\* the loop after a row: it ends when the row raised, and goes on if not
EquityRowsAfter(idx, rows, after) ==
    IF after.kind = "raise" THEN after ELSE EquityRowsLoop(idx, rows, after.value)

EquityRowsLoop(idx, rows, equity_trades) ==
    IF rows = <<>> THEN Returned(equity_trades)
    ELSE LET cols == Head(rows)
         IN  IF cols = <<>> THEN ListIndexOutOfRange
             ELSE IF Contains(PLOSHCHADKA, cols[1]) \/ Contains(ITOGO, cols[1])
             THEN EquityRowsLoop(idx, Tail(rows), equity_trades)
             ELSE EquityRowsAfter(idx, Tail(rows), EquityRow(idx, cols, equity_trades))

\* parse_equity_trades(soup): the list, or the exception
parse_equity_trades(soup) ==
    LET p_of_equity_trades == Find(soup, EQUITY_TRADES_TITLE)
        table == FindNextSiblingTable(soup, p_of_equity_trades)
    IN  IF p_of_equity_trades = 0 THEN Returned(<<>>)
        ELSE IF table = 0 THEN NoneHasNoAttribute("find_all")
        ELSE IF soup[table].rows = <<>> THEN ListIndexOutOfRange
        ELSE LET header == soup[table].rows[1]
                 idx == [trade_date |-> ColumnIndex(header, COL_TRADE_DATE),
                         settle_date |-> ColumnIndex(header, COL_SETTLE_DATE),
                         trade_time |-> ColumnIndex(header, COL_TRADE_TIME),
                         security_name |-> ColumnIndex(header, COL_SECURITY_NAME),
                         isin |-> ColumnIndex(header, COL_ISIN),
                         ccy |-> ColumnIndex(header, COL_CCY),
                         side |-> ColumnIndex(header, COL_SIDE),
                         notional |-> ColumnIndex(header, COL_NOTIONAL),
                         unit_price |-> ColumnIndex(header, COL_UNIT_PRICE),
                         amount |-> ColumnIndex(header, COL_AMOUNT),
                         accum_unpaid_coupon |-> ColumnIndex(header, COL_ACCUM_UNPAID_COUPON),
                         broker_fee |-> ColumnIndex(header, BROKER_FEE),
                         exchange_fee |-> ColumnIndex(header, EXCHANGE_FEE),
                         trade_id |-> ColumnIndex(header, COL_TRADE_ID),
                         comment |-> ColumnIndex(header, COL_COMMENT),
                         status |-> ColumnIndex(header, COL_STATUS)]
             IN  EquityRowsLoop(idx, Tail(soup[table].rows), <<>>)

\* the rows of an equity table at most, its header apart
MaxEquityRows == 2

\* texts of cells
TIME1 == <<"1", "7", ":", "0", "1", ":", "0", "5">>
NUM_10 == <<"1", "0">>
NUM_100 == <<"1", "0", "0">>
NUM_1 == <<"1">>
NUM_MINUS_1 == <<"-", "1">>
NUM_NAN == <<"n", "a", "n">>

\* the header of the equity table, in the order of the statements
EquityHeader ==
    <<COL_TRADE_DATE, COL_SETTLE_DATE, COL_TRADE_TIME, COL_SECURITY_NAME, COL_ISIN, COL_CCY,
      COL_SIDE, COL_NOTIONAL, COL_UNIT_PRICE, COL_AMOUNT, COL_ACCUM_UNPAID_COUPON,
      BROKER_FEE, EXCHANGE_FEE, COL_TRADE_ID, COL_COMMENT, COL_STATUS>>

\* a row under EquityHeader
EquityCols(side, notional, unit_price, accum_unpaid_coupon, broker_fee) ==
    <<DAY1, DAY2, TIME1, <<"OFZ", "26207">>, <<"RU000A0JS3W6">>, RUB, side, notional,
      unit_price, NUM_1000, accum_unpaid_coupon, broker_fee, NUM_0, <<"2">>, <<>>,
      <<"Ispolnena">>>>

\* rows of either side and of a side that is none, with a count of 10 or 0,
\* a price of 100 or nan, a coupon of 0 or 500, a broker's fee of 1 or -1;
\* and the two rows that are skipped
EquityRowPool ==
    {EquityCols(side, notional, unit_price, accum_unpaid_coupon, broker_fee) :
        side \in {POKUPKA, PRODAZHA, <<"Obmen">>}, notional \in {NUM_10, NUM_0},
        unit_price \in {NUM_100, NUM_NAN}, accum_unpaid_coupon \in {NUM_0, NUM_500},
        broker_fee \in {NUM_1, NUM_MINUS_1}}
    \cup {<<PLOSHCHADKA \o <<"Fondovyi", "rynok">>>>,
          <<ITOGO, <<>>, <<>>, <<>>, <<>>, RUB, <<>>, NUM_10>>}

\* the caller parses the equity trades of a document
ParseEquityTrades(soup) ==
    /\ pc = "collect"
    /\ call' = [args |-> <<soup>>, heap |-> heap]
    /\ result' = parse_equity_trades(soup)
    /\ pc' = "equity_parsed"
    /\ UNCHANGED <<heap, reports, nested, permuted, line>>

\* the equity trades of a document with any rows in its equity table
ParseSomeEquityRows ==
    \E rows \in SeqsUpTo(EquityRowPool, MaxEquityRows) :
        ParseEquityTrades(<<TitleP(EQUITY_TRADES_TITLE),
                            Table(<<EquityHeader>> \o rows)>>)

NextEquityRows == ParseSomeEquityRows

SpecEquityRows == Init /\ [][NextEquityRows]_vars

(***************************************************************************)
(* parse_fx_trades                                                         *)
(***************************************************************************)
FX_TRADES_TITLE == <<"Sdelki", "s", "valyutnymi", "instrumentami", "za", "period">>
OBOROT == <<"Oborot">>

\* the column texts that parse_fx_trades knows, COL_TRADE_DATE,
\* COL_SETTLE_DATE, COL_TRADE_TIME, COL_SIDE, COL_TRADE_ID and COL_COMMENT
\* apart
COL_FX_SECURITY_NAME == <<"Valyutnyi", "instrument">>
COL_UND_AMT == <<"Kolichestvo", "bazovoi", "valyuty", "lota">>
COL_STRIKE == <<"Tsena">>
COL_ACC_AMT == <<"Summa", "sdelki", "v", "sopryazhennoi", "valyute">>
COL_FX_BROKER_FEE == <<"Komissiya", "Brokera", "oborotnaya,", "rub">>
COL_FX_EXCHANGE_FEE == <<"Komissiya", "Birzhi,", "rub">>

IsSpace(c) == c \in {" ", "\n", "\t"}

\* text.strip()
RECURSIVE Strip(_)
Strip(text) ==
    IF text = <<>> THEN text
    ELSE IF IsSpace(Head(text)) THEN Strip(Tail(text))
    ELSE IF IsSpace(text[Len(text)]) THEN Strip(SubSeq(text, 1, Len(text) - 1))
    ELSE text

\* the body of the loop over the rows, for a row that is not skipped: the
\* list `fx_trades` after it, or the exception
FxRow(idx, cols, fx_trades) ==
    LET trade_datetime == Then2(Cell(cols, idx.trade_date), Cell(cols, idx.trade_time),
                                parse_datetime)
        settle_date == Then(Cell(cols, idx.settle_date), parse_date)
        security_name == Cell(cols, idx.security_name)
        side == Then(Cell(cols, idx.side), parse_side)
        und_amt_positive == Then(Cell(cols, idx.und_amt), parse_num)
        strike == Then(Cell(cols, idx.strike), parse_num)
        acc_amt_positive == Then(Cell(cols, idx.acc_amt), parse_num)
        broker_fee == Then(Cell(cols, idx.broker_fee), parse_num)
        exchange_fee == Then(Cell(cols, idx.exchange_fee), parse_num)
        trade_id == Cell(cols, idx.trade_id)
        comment == Cell(cols, idx.comment)
        raised == FirstRaised(<<trade_datetime, settle_date, security_name, side,
                                und_amt_positive, strike, acc_amt_positive, broker_fee,
                                exchange_fee, trade_id, comment>>)
        entry == FXPostInit(
                     FXTradesReportLine(
                         side.value, strike.value,
                         Slice(Strip(security_name.value), 0, 3),
                         SignedBySide(side.value, und_amt_positive.value,
                                      FNeg(und_amt_positive.value)),
                         Slice(Strip(security_name.value), 3, 6),
                         SignedBySide(side.value, FNeg(acc_amt_positive.value),
                                      acc_amt_positive.value),
                         FNeg(broker_fee.value), FNeg(exchange_fee.value), trade_id.value))
    IN  IF raised # None THEN raised
        ELSE IF entry.kind = "raise" THEN entry
        ELSE Returned(Append(fx_trades, entry.value))

\* for row in fx_trades_table_rows[1:]
RECURSIVE FxRowsLoop(_, _, _)
\* the loop after a row: it ends when the row raised, and goes on if not
FxRowsAfter(idx, rows, after) ==
    IF after.kind = "raise" THEN after ELSE FxRowsLoop(idx, rows, after.value)

FxRowsLoop(idx, rows, fx_trades) ==
    IF rows = <<>> THEN Returned(fx_trades)
    ELSE LET cols == Head(rows)
         IN  IF cols = <<>> THEN ListIndexOutOfRange
             ELSE IF Contains(OBOROT, cols[1]) THEN FxRowsLoop(idx, Tail(rows), fx_trades)
             ELSE FxRowsAfter(idx, Tail(rows), FxRow(idx, cols, fx_trades))

\* parse_fx_trades(soup): the list, or the exception
parse_fx_trades(soup) ==
    LET p_of_fx_trades == Find(soup, FX_TRADES_TITLE)
        table == FindNextSiblingTable(soup, p_of_fx_trades)
    IN  IF p_of_fx_trades = 0 THEN Returned(<<>>)
        ELSE IF table = 0 THEN NoneHasNoAttribute("find_all")
        ELSE IF soup[table].rows = <<>> THEN ListIndexOutOfRange
        ELSE LET header == soup[table].rows[1]
                 idx == [trade_date |-> ColumnIndex(header, COL_TRADE_DATE),
                         settle_date |-> ColumnIndex(header, COL_SETTLE_DATE),
                         trade_time |-> ColumnIndex(header, COL_TRADE_TIME),
                         security_name |-> ColumnIndex(header, COL_FX_SECURITY_NAME),
                         side |-> ColumnIndex(header, COL_SIDE),
                         und_amt |-> ColumnIndex(header, COL_UND_AMT),
                         strike |-> ColumnIndex(header, COL_STRIKE),
                         acc_amt |-> ColumnIndex(header, COL_ACC_AMT),
                         broker_fee |-> ColumnIndex(header, COL_FX_BROKER_FEE),
                         exchange_fee |-> ColumnIndex(header, COL_FX_EXCHANGE_FEE),
                         trade_id |-> ColumnIndex(header, COL_TRADE_ID),
                         comment |-> ColumnIndex(header, COL_COMMENT)]
             IN  FxRowsLoop(idx, Tail(soup[table].rows), <<>>)

\* the caller parses the FX trades of a document
ParseFxTrades(soup) ==
    /\ pc = "collect"
    /\ call' = [args |-> <<soup>>, heap |-> heap]
    /\ result' = parse_fx_trades(soup)
    /\ pc' = "fx_parsed"
    /\ UNCHANGED <<heap, reports, nested, permuted, line>>

(***************************************************************************)
(* parse_report.  The header paragraph has the contents <text>, <br/>,     *)
(* <text>; in its texts the blanks and the line ends are tokens of their   *)
(* own, as the two patterns look at them.                                  *)
(***************************************************************************)
INVESTOR == <<"Investor">>

\* pattern.search(a_tag)
NotAString == Raise("TypeError", <<"expected string or bytes-like object">>)

IsDigit(c) == c \in DOMAIN DigitVal
\* \w+ matches words and digits, no blank and no punctuation
IsWord(c) == ~IsSpace(c) /\ c \notin {".", ":", ",", "-", "/"}

\* the text up to its first line end: what .+ or .* matches from its start
RECURSIVE UpToLineEnd(_)
UpToLineEnd(text) ==
    IF text = <<>> \/ Head(text) = "\n" THEN <<>>
    ELSE <<Head(text)>> \o UpToLineEnd(Tail(text))

\* investor_regex.search(text): " Investor:\s(?P<client_name>.+)", the match
\* that starts first; None (<<>>) or <<the groups>>
InvestorSearch(text) ==
    LET starts == {i \in 1..Len(text) :
                      /\ i + 4 <= Len(text)
                      /\ text[i] = " "
                      /\ text[i + 1] = "Investor"
                      /\ text[i + 2] = ":"
                      /\ IsSpace(text[i + 3])
                      /\ text[i + 4] # "\n"}
    IN  IF starts = {} THEN <<>>
        ELSE <<[client_name |->
                    UpToLineEnd(SubSeq(text, SetMin(starts) + 4, Len(text)))]>>

\* the length of the longest run of \w tokens that text starts with
RECURSIVE WordRun(_)
WordRun(text) ==
    IF text = <<>> \/ ~IsWord(Head(text)) THEN 0 ELSE 1 + WordRun(Tail(text))

\* text starts with \d{2}\.\d{2}\.\d{4}
StartsWithDate(text) ==
    /\ Len(text) >= 10
    /\ \A i \in {1, 2, 4, 5, 7, 8, 9, 10} : IsDigit(text[i])
    /\ text[3] = "." /\ text[6] = "."

\* .*$ matches text: no line end in it but, at most, its last token
RestMatches(text) == \A i \in 1..(Len(text) - 1) : text[i] # "\n"

\* account_details_regex.search(text):
\* "Dogovor\s(?P<account>\w+)\sot\s(?P<acc_start_date>\d{2}\.\d{2}\.\d{4}).*$"
AccountDetailsSearch(text) ==
    LET AccountEnd(i) == i + 1 + WordRun(SubSeq(text, i + 2, Len(text)))
        starts == {i \in 1..Len(text) :
                      /\ text[i] = "Dogovor"
                      /\ i + 1 <= Len(text) /\ IsSpace(text[i + 1])
                      /\ \E end \in {AccountEnd(i)} :
                            /\ end > i + 1
                            /\ end + 3 <= Len(text)
                            /\ IsSpace(text[end + 1])
                            /\ text[end + 2] = "ot"
                            /\ IsSpace(text[end + 3])
                            /\ StartsWithDate(SubSeq(text, end + 4, Len(text)))
                            /\ RestMatches(SubSeq(text, end + 14, Len(text)))}
        i == SetMin(starts)
    IN  IF starts = {} THEN <<>>
        ELSE <<[account |-> SubSeq(text, i + 2, AccountEnd(i)),
                acc_start_date |-> SubSeq(text, AccountEnd(i) + 4, AccountEnd(i) + 13)]>>

\* pattern.search(contents[i])[group], contents[i] searched by Search
Group(contents, i, Search(_), group) ==
    IF i >= Len(contents) THEN ListIndexOutOfRange
    ELSE IF contents[i + 1].name # "#text" THEN NotAString
    ELSE IF Search(contents[i + 1].text) = <<>> THEN NoneNotSubscriptable
    ELSE Returned(Search(contents[i + 1].text)[1][group])

\* parse_report(fname, rep_html) on the heap h, soup being the parsed
\* rep_html, and cashflows, equity_trades and fx_trades what the three section
\* parsers make of soup: the outcome and the heap after the call
parse_report(h, fname, soup, cashflows, equity_trades, fx_trades) ==
    LET investor == Find(soup, INVESTOR)
        contents == soup[investor].contents
        client_name == Group(contents, 0, InvestorSearch, "client_name")
        account_id == Group(contents, 2, AccountDetailsSearch, "account")
        acc_start_date == Then(Group(contents, 2, AccountDetailsSearch, "acc_start_date"),
                               parse_date)
    IN  IF investor = 0 THEN [out |-> NoneHasNoAttribute("contents"), heap |-> h]
        ELSE IF client_name.kind = "raise" THEN [out |-> client_name, heap |-> h]
        ELSE IF account_id.kind = "raise" THEN [out |-> account_id, heap |-> h]
        ELSE IF acc_start_date.kind = "raise" THEN [out |-> acc_start_date, heap |-> h]
        ELSE IF cashflows.kind = "raise" THEN [out |-> cashflows, heap |-> h]
        ELSE IF equity_trades.kind = "raise" THEN [out |-> equity_trades, heap |-> h]
        ELSE IF fx_trades.kind = "raise" THEN [out |-> fx_trades, heap |-> h]
        ELSE [out |-> Returned(Report(client_name.value, account_id.value,
                                      acc_start_date.value, Len(h) + 1, Len(h) + 2,
                                      Len(h) + 3, fname)),
              heap |-> h \o <<cashflows.value, equity_trades.value, fx_trades.value>>]

\* the caller parses a document
ParseReport(fname, soup) ==
    /\ pc = "collect"
    /\ call' = [args |-> <<fname, soup>>, heap |-> heap]
    /\ \E cashflows \in {parse_cashflows(soup)},
          equity_trades \in {parse_equity_trades(soup)},
          fx_trades \in {parse_fx_trades(soup)} :
          \E rep \in {parse_report(heap, fname, soup, cashflows, equity_trades, fx_trades)} :
              /\ result' = rep.out
              /\ heap' = rep.heap
    /\ pc' = "report_parsed"
    /\ UNCHANGED <<reports, nested, permuted, line>>

(***************************************************************************)
(* The documents of the model: a header paragraph, or none, and then each  *)
(* of the three sections as its title and its table, its title alone, or   *)
(* nothing.                                                                *)
(***************************************************************************)
INVESTOR_TEXT == <<" ", "Investor", ":", " ", "Ivanov", " ", "Ivan">>
ACCOUNT_TEXT == <<"Dogovor", " ", "1234ABC", " ", "ot", " ">> \o DAY1 \o <<"\n">>

HeaderP(investor_text, account_text) ==
    P(investor_text \o account_text, <<Text(investor_text), Br, Text(account_text)>>)

\* the header paragraphs: one as the statements have it; one whose investor
\* has no name, one that does not start with a blank; one whose account has
\* a dash in it, one whose date has a day of one digit, one whose date is
\* no day of the calendar; and no header paragraph at all
HeaderPieces ==
    {<<HeaderP(INVESTOR_TEXT, ACCOUNT_TEXT)>>,
     <<HeaderP(<<" ", "Investor", ":", " ">>, ACCOUNT_TEXT)>>,
     <<HeaderP(<<"Investor", ":", " ", "Ivanov">>, ACCOUNT_TEXT)>>,
     <<HeaderP(INVESTOR_TEXT,
               <<"Dogovor", " ", "1234", "-", "ABC", " ", "ot", " ">> \o DAY1)>>,
     <<HeaderP(INVESTOR_TEXT, <<"Dogovor", " ", "1234ABC", " ", "ot", " ">> \o Tail(DAY1))>>,
     <<HeaderP(INVESTOR_TEXT,
               <<"Dogovor", " ", "1234ABC", " ", "ot", " ", "3", "0">> \o SubSeq(DAY1, 3, 10))>>,
     <<>>}

\* the header of the FX table, in the order of the statements, and a row
FxHeader ==
    <<COL_TRADE_DATE, COL_SETTLE_DATE, COL_TRADE_TIME, COL_FX_SECURITY_NAME, COL_SIDE,
      COL_UND_AMT, COL_STRIKE, COL_ACC_AMT, COL_FX_BROKER_FEE, COL_FX_EXCHANGE_FEE,
      COL_TRADE_ID, COL_COMMENT>>
FxCols ==
    <<DAY1, DAY2, TIME1, <<"U", "S", "D", "R", "U", "B", "_", "T", "O", "M", " ">>, POKUPKA,
      NUM_10, <<"9", "0">>, <<"9", "0", "0">>, NUM_1, NUM_0, <<"3">>, <<>>>>

\* a section: nothing, its title alone, its title and its table
SectionPieces(title, header, cols) ==
    {<<>>, <<TitleP(title)>>, <<TitleP(title), Table(<<header, cols>>)>>}

Docs ==
    {header \o cash \o equity \o fx :
        header \in HeaderPieces,
        cash \in SectionPieces(CASHFLOWS_TITLE, CashHeader,
                               <<DAY1, FR, DEPOSIT, RUB, NUM_1000, NUM_0>>),
        equity \in SectionPieces(EQUITY_TRADES_TITLE, EquityHeader,
                                 EquityCols(POKUPKA, NUM_10, NUM_100, NUM_0, NUM_1)),
        fx \in SectionPieces(FX_TRADES_TITLE, FxHeader, FxCols)}

ParseSomeReport == \E fname \in FileNames, soup \in Docs : ParseReport(fname, soup)
ParseCashflowsOfSomeDoc == \E soup \in Docs : ParseCashflows(soup)
ParseEquityTradesOfSomeDoc == \E soup \in Docs : ParseEquityTrades(soup)
ParseFxTradesOfSomeDoc == \E soup \in Docs : ParseFxTrades(soup)

NextDocs ==
    \/ ParseSomeReport
    \/ ParseCashflowsOfSomeDoc
    \/ ParseEquityTradesOfSomeDoc
    \/ ParseFxTradesOfSomeDoc

SpecDocs == Init /\ [][NextDocs]_vars

(***************************************************************************)
(* Tables that lack some of the columns the parsers look for: the header   *)
(* and every row are without them, and the columns behind move up.         *)
(***************************************************************************)
MaxMissing == 1
MaxColumnRows == 1

\* the cells of a row whose column in the header is not one of `missing`
WithoutColumns(header, cols, missing) ==
    LET kept == {i \in 1..Len(header) : i <= Len(cols) /\ header[i] \notin missing}
    IN  [j \in 1..Cardinality(kept) |->
            cols[CHOOSE i \in kept : Cardinality({k \in kept : k < i}) = j - 1]]

\* a row of fewer cells than the header is one of cells that span columns,
\* and stays as it is
TableWithout(header, rows, missing) ==
    Table(<<WithoutColumns(header, header, missing)>>
          \o [r \in 1..Len(rows) |->
                 IF Len(rows[r]) = Len(header)
                 THEN WithoutColumns(header, rows[r], missing)
                 ELSE rows[r]])

SomeOf(labels) == {missing \in SUBSET labels : Cardinality(missing) <= MaxMissing}

ParseCashflowsWithSomeColumns ==
    \E missing \in SomeOf(Range(CashHeader)),
       rows \in SeqsUpTo({<<DAY1, FR, DEPOSIT, RUB, NUM_1000, NUM_0>>,
                          <<DAY2, FR, TRADE, RUB, NUM_0, NUM_500>>,
                          <<ITOGO, FR, <<>>, RUB, NUM_1000, NUM_500>>}, MaxColumnRows) :
        ParseCashflows(<<TitleP(CASHFLOWS_TITLE), TableWithout(CashHeader, rows, missing)>>)

ParseEquityTradesWithSomeColumns ==
    \E missing \in SomeOf(Range(EquityHeader)),
       rows \in SeqsUpTo({EquityCols(POKUPKA, NUM_10, NUM_100, NUM_0, NUM_1),
                          <<PLOSHCHADKA \o <<"Fondovyi", "rynok">>>>}, MaxColumnRows) :
        ParseEquityTrades(<<TitleP(EQUITY_TRADES_TITLE),
                            TableWithout(EquityHeader, rows, missing)>>)

ParseFxTradesWithSomeColumns ==
    \E missing \in SomeOf(Range(FxHeader)),
       rows \in SeqsUpTo({FxCols, <<OBOROT, <<>>, <<>>, <<>>, <<>>, NUM_10>>}, MaxColumnRows) :
        ParseFxTrades(<<TitleP(FX_TRADES_TITLE), TableWithout(FxHeader, rows, missing)>>)

NextColumns ==
    \/ ParseCashflowsWithSomeColumns
    \/ ParseEquityTradesWithSomeColumns
    \/ ParseFxTradesWithSomeColumns

SpecColumns == Init /\ [][NextColumns]_vars

(***************************************************************************)
(* What the claims speak about.                                            *)
(***************************************************************************)
RECURSIVE Concat(_)
Concat(ss) == IF ss = <<>> THEN <<>> ELSE Head(ss) \o Concat(Tail(ss))

\* the lists named field ("cashflows", "equity_trades", "fx_trades") of the
\* Reports passed to join_reports, as they were when it was called, one
\* behind the other in input order
InputLines(field) ==
    Concat([i \in 1..Len(call.args) |-> call.heap[call.args[i][field]]])

\* the list named field of the Report that a call returned
MergedLines(out, field) == heap[out.value[field]]

TradeFields == {"equity_trades", "fx_trades"}

\* join_reports(reports) has just ended
Joined == pc = "joined"

TradeIdsOf(s) == {s[i].trade_id : i \in 1..Len(s)}

\* the first record of the list s that carries trade_id
FirstWith(s, trade_id) ==
    s[CHOOSE i \in 1..Len(s) :
         /\ s[i].trade_id = trade_id
         /\ \A j \in 1..(i - 1) : s[j].trade_id # trade_id]

\* s is the text of an integer: an optional sign and then digits only
IsIntegerText(s) ==
    LET body == IF s # <<>> /\ s[1] \in {"+", "-"} THEN SubSeq(s, 2, Len(s)) ELSE s
    IN  /\ body # <<>>
        /\ \A i \in 1..Len(body) :
              body[i] \in {"0", "1", "2", "3", "4", "5", "6", "7", "8", "9"}

\* the number that the text of an integer denotes
RECURSIVE NumberOf(_)
NumberOf(s) ==
    IF s = <<>> THEN 0
    ELSE IF s[1] = "-" THEN 0 - NumberOf(Tail(s))
    ELSE IF s[1] = "+" THEN NumberOf(Tail(s))
    ELSE 10 * NumberOf(SubSeq(s, 1, Len(s) - 1)) + DigitVal[s[Len(s)]]

(***************************************************************************)
(* C1: in the merged equity list and in the merged FX list, every trade_id *)
(* of the inputs occurs exactly once, no other does, and the record kept   *)
(* for it is its first occurrence in input order (earlier Report first,    *)
(* earlier position first inside a Report).                                *)
(***************************************************************************)
C1_FirstOccurrenceWins ==
    (Joined /\ result.kind = "ok") =>
        \A field \in TradeFields :
            LET in == InputLines(field)
                out == MergedLines(result, field)
            IN  /\ TradeIdsOf(out) = TradeIdsOf(in)
                /\ \A id \in TradeIdsOf(in) :
                      /\ Cardinality({i \in 1..Len(out) : out[i].trade_id = id}) = 1
                      /\ \A i \in 1..Len(out) :
                            out[i].trade_id = id => out[i] = FirstWith(in, id)

\* a merge of three Reports where a trade_id comes twice inside one Report and
\* again, with another record, in a later Report
C1_Witness ==
    /\ pc = "joined"
    /\ result.kind = "ok"
    /\ Len(call.args) = 3
    /\ LET first == call.heap[call.args[1].equity_trades]
           third == call.heap[call.args[3].equity_trades]
       IN  /\ Len(first) = 2
           /\ first[1].trade_id = first[2].trade_id
           /\ first[1] # first[2]
           /\ third # <<>>
           /\ third[1] = first[2]
           /\ MergedLines(result, "equity_trades") = <<first[1]>>

(***************************************************************************)
(* C5: after a successful join_reports the merged equity list and the      *)
(* merged FX list are in ascending order of int(trade_id).                 *)
(***************************************************************************)
C5_TradesAscendingByIntId ==
    (Joined /\ result.kind = "ok") =>
        \A field \in TradeFields :
            LET out == MergedLines(result, field)
            IN  \A i, j \in 1..Len(out) :
                    i < j => /\ IsIntegerText(out[i].trade_id)
                             /\ IsIntegerText(out[j].trade_id)
                             /\ NumberOf(out[i].trade_id) <= NumberOf(out[j].trade_id)

\* "10" was met before "2" and is behind it in the merged list
C5_Witness ==
    /\ pc = "joined"
    /\ result.kind = "ok"
    /\ InputLines("equity_trades") # <<>>
    /\ InputLines("equity_trades")[1].trade_id = <<"1", "0">>
    /\ TradeIdsOf(InputLines("equity_trades")) = {<<"1", "0">>, <<"2">>}
    /\ DictKeys(MergedLines(result, "equity_trades")) = << <<"2">>, <<"1", "0">> >>

(***************************************************************************)
(* C6: when a trade of an input Report carries a trade_id that is not the  *)
(* text of an integer, join_reports raises an error that names such a      *)
(* trade_id, and returns no Report.                                        *)
(***************************************************************************)
NonIntegerIds ==
    {id \in TradeIdsOf(InputLines("equity_trades")) \cup TradeIdsOf(InputLines("fx_trades")) :
        ~IsIntegerText(id)}

C6_NonIntegerIdIsFatal ==
    (Joined /\ NonIntegerIds # {}) =>
        /\ result.kind = "raise"
        /\ result.exc = "ValueError"
        /\ result.trade_id \in NonIntegerIds

\* the second of two Reports carries the FX trade "x": the merge raised, naming it
C6_Witness ==
    /\ pc = "joined"
    /\ Len(call.args) = 2
    /\ TradeIdsOf(call.heap[call.args[1].fx_trades]) = {<<"2">>}
    /\ <<"x">> \in TradeIdsOf(call.heap[call.args[2].fx_trades])
    /\ result.kind = "raise"
    /\ result.trade_id = <<"x">>

(***************************************************************************)
(* C2: merging the first k Reports and then the result with the others     *)
(* gives the equity and FX trade lists of the direct merge; and merging    *)
(* the Reports in another order gives the same trade_ids, with the same    *)
(* records when the records that share a trade_id are equal.               *)
(***************************************************************************)
\* the records of the inputs that share a trade_id are equal
RepeatsAreEqual(field) ==
    LET in == InputLines(field)
    IN  \A i, j \in 1..Len(in) : in[i].trade_id = in[j].trade_id => in[i] = in[j]

C2_Associative ==
    pc = "nested" =>
        /\ nested.kind = result.kind
        /\ result.kind = "ok" =>
              \A field \in TradeFields :
                  MergedLines(nested, field) = MergedLines(result, field)

C2_SameIdsInAnyOrder ==
    pc = "permuted" =>
        /\ permuted.kind = result.kind
        /\ result.kind = "ok" =>
              \A field \in TradeFields :
                  LET there == MergedLines(permuted, field)
                      here == MergedLines(result, field)
                  IN  /\ TradeIdsOf(there) = TradeIdsOf(here)
                      /\ RepeatsAreEqual(field) => Range(there) = Range(here)

C2_AssociativeAndSameIds == C2_Associative /\ C2_SameIdsInAnyOrder

\* C2 as stated: the trade records are the same for any permutation of the
\* inputs
C2_AsStated ==
    /\ C2_Associative
    /\ (pc = "permuted" /\ result.kind = "ok" /\ permuted.kind = "ok") =>
          \A field \in TradeFields :
              Range(MergedLines(permuted, field)) = Range(MergedLines(result, field))

\* three Reports that share the trade_id "2", the records equal, were merged
\* in another order and gave the same one trade
C2_Witness ==
    /\ pc = "permuted"
    /\ result.kind = "ok"
    /\ permuted.kind = "ok"
    /\ Len(reports) = 3
    /\ RepeatsAreEqual("equity_trades")
    /\ \A i \in 1..3 : <<"2">> \in TradeIdsOf(call.heap[reports[i].equity_trades])
    /\ Len(MergedLines(permuted, "equity_trades")) = 1

(***************************************************************************)
(* C4: after a successful join_reports the merged cashflows list is the    *)
(* stable sort, ascending by (date, trading_platform, ccy), of the inputs' *)
(* cashflows lists one behind the other: as long as they are together,     *)
(* nothing removed, and the entries of one sort key in their input order.  *)
(***************************************************************************)
\* the sort key of a is not behind that of b
CashflowKeyLe(a, b) ==
    \/ a.date < b.date
    \/ /\ a.date = b.date
       /\ \/ StrRank(a.trading_platform) < StrRank(b.trading_platform)
          \/ /\ a.trading_platform = b.trading_platform
             /\ StrRank(a.ccy) <= StrRank(b.ccy)

SameCashflowKey(a, b) ==
    a.date = b.date /\ a.trading_platform = b.trading_platform /\ a.ccy = b.ccy

C4_CashflowsStableSorted ==
    (Joined /\ result.kind = "ok") =>
        LET in == InputLines("cashflows")
            out == MergedLines(result, "cashflows")
        IN  /\ Len(out) = Len(in)
            /\ \A i, j \in 1..Len(out) : i < j => CashflowKeyLe(out[i], out[j])
            /\ \A c \in Range(in) :
                  SelectSeq(out, LAMBDA x : SameCashflowKey(x, c))
                      = SelectSeq(in, LAMBDA x : SameCashflowKey(x, c))

\* the same entry came in two Reports and is kept twice, behind an entry of
\* its sort key that came first and before one of a later key that came first
C4_Witness ==
    /\ pc = "joined"
    /\ result.kind = "ok"
    /\ LET in == InputLines("cashflows")
           out == MergedLines(result, "cashflows")
       IN  /\ Len(in) = 4
           /\ in[1].ccy = "RUB" /\ in[1].trading_platform = "Valyutnyi rynok"
           /\ in[2].description = DEPOSIT /\ in[2].date = 2
           /\ in[3].description = <<"Kupon">> /\ SameCashflowKey(in[3], in[2])
           /\ in[4] = in[2]
           /\ out = <<in[2], in[3], in[4], in[1]>>

(***************************************************************************)
(* C7: join_reports leaves the list of Reports it is given and every list  *)
(* that exists when it is called as they are, and the three lists of the   *)
(* Report it returns are new lists.                                        *)
(***************************************************************************)
ListFields == {"cashflows", "equity_trades", "fx_trades"}

C7_InputsNotMutated ==
    [][(pc = "collect" /\ pc' = "joined") =>
          /\ reports' = reports
          /\ Len(heap') >= Len(heap)
          /\ \A r \in 1..Len(heap) : heap'[r] = heap[r]
          /\ result'.kind = "ok" =>
                /\ \A field \in ListFields : result'.value[field] \notin 1..Len(heap)
                /\ Cardinality({result'.value[field] : field \in ListFields}) = 3]_vars

\* two Reports with cash flows out of order were merged: the merged list is
\* another than theirs, and theirs are what they were
C7_Witness ==
    /\ pc = "joined"
    /\ result.kind = "ok"
    /\ Len(reports) = 2
    /\ \A i \in 1..2 :
          /\ Len(heap[reports[i].cashflows]) = 2
          /\ heap[reports[i].cashflows] = call.heap[reports[i].cashflows]
          /\ heap[reports[i].cashflows][1].date > heap[reports[i].cashflows][2].date
    /\ Len(MergedLines(result, "cashflows")) = 4

(***************************************************************************)
(* C8: the merged Report of a sequence of Reports that is not empty has    *)
(* the least acc_start_date of the inputs, and its client_name, account_id *)
(* and source_file are each the distinct values of that field over the     *)
(* inputs, every one once, joined by ", ".                                 *)
(***************************************************************************)
HeaderFields == {"client_name", "account_id", "source_file"}

C8_HeaderFieldsJoined ==
    (Joined /\ result.kind = "ok") =>
        LET args == call.args
            merged == result.value
        IN  /\ args # <<>>
            /\ \E i \in 1..Len(args) : merged.acc_start_date = args[i].acc_start_date
            /\ \A i \in 1..Len(args) : merged.acc_start_date <= args[i].acc_start_date
            /\ \A field \in HeaderFields :
                  \E parts \in Orderings({args[i][field] : i \in 1..Len(args)}) :
                      merged[field] = StrJoin(", ", parts)

\* three Reports of two clients, the second the oldest: the merged Report
\* names both clients once, the one met last first
C8_Witness ==
    /\ pc = "joined"
    /\ result.kind = "ok"
    /\ Len(call.args) = 3
    /\ call.args[1].client_name = "Ivanov Ivan"
    /\ call.args[2].client_name = "Ivanov Ivan"
    /\ call.args[3].client_name = "Petrov Petr"
    /\ call.args[1].acc_start_date = 2
    /\ call.args[2].acc_start_date = 1
    /\ call.args[3].acc_start_date = 2
    /\ result.value.acc_start_date = 1
    /\ result.value.client_name = "Petrov Petr, Ivanov Ivan"

(***************************************************************************)
(* C3: join_reports([R]) raises when a trade_id of R is not the text of an *)
(* integer; otherwise it returns a Report with R's client_name,            *)
(* account_id, acc_start_date and source_file, whose cashflows are the     *)
(* entries of R sorted, and whose equity_trades and fx_trades are, sorted, *)
(* the first entry of R for each trade_id: the entries of R when no        *)
(* trade_id comes twice in a list of R.                                    *)
(***************************************************************************)
Count(s, x) == Cardinality({i \in 1..Len(s) : s[i] = x})

\* the two lists hold the same entries, each as often
SameEntries(s, t) == \A x \in Range(s) \cup Range(t) : Count(s, x) = Count(t, x)

SameHeader(r, merged) ==
    /\ merged.client_name = r.client_name
    /\ merged.account_id = r.account_id
    /\ merged.acc_start_date = r.acc_start_date
    /\ merged.source_file = r.source_file

NoRepeatedId(s) == \A i, j \in 1..Len(s) : s[i].trade_id = s[j].trade_id => i = j

C3_SingleReport ==
    (Joined /\ Len(call.args) = 1) =>
        IF NonIntegerIds # {}
        THEN result.kind = "raise"
        ELSE /\ result.kind = "ok"
             /\ SameHeader(call.args[1], result.value)
             /\ SameEntries(InputLines("cashflows"), MergedLines(result, "cashflows"))
             /\ \A field \in TradeFields :
                   LET in == InputLines(field)
                       out == MergedLines(result, field)
                   IN  /\ NoRepeatedId(out)
                       /\ Range(out) = {FirstWith(in, id) : id \in TradeIdsOf(in)}
                       /\ NoRepeatedId(in) => SameEntries(in, out)

\* C3 as stated: join_reports([R]) returns a Report with R's header fields
\* and, in each list, the entries of R
C3_AsStated ==
    (Joined /\ Len(call.args) = 1) =>
        /\ result.kind = "ok"
        /\ SameHeader(call.args[1], result.value)
        /\ \A field \in ListFields :
              SameEntries(InputLines(field), MergedLines(result, field))

\* a Report with two cash flows out of order, two equity trades out of order
\* and two FX trades was merged alone and came back with the same entries
C3_Witness ==
    /\ pc = "joined"
    /\ Len(call.args) = 1
    /\ result.kind = "ok"
    /\ Len(InputLines("cashflows")) = 2
    /\ InputLines("cashflows")[1].date > InputLines("cashflows")[2].date
    /\ DictKeys(InputLines("equity_trades")) = << <<"1", "0">>, <<"2">> >>
    /\ DictKeys(InputLines("fx_trades")) = << <<"2">>, <<"0", "2">> >>
    /\ MergedLines(result, "equity_trades") # InputLines("equity_trades")
    /\ SameEntries(InputLines("equity_trades"), MergedLines(result, "equity_trades"))

(***************************************************************************)
(* C9: an EquityTradesReportLine that exists has unit_price > 0; with side *)
(* BUY num_shares > 0, amount <= 0 and accum_unpaid_coupon <= 0; with side *)
(* SELL num_shares < 0, amount >= 0 and accum_unpaid_coupon >= 0; and      *)
(* broker_fee <= 0 and exchange_fee <= 0.  A constructor call with fields  *)
(* that are not so raises an error that names the trade_id.                *)
(***************************************************************************)
EquityInvariants(r) ==
    /\ FGt(r.unit_price, ZERO)
    /\ r.side = BUY => /\ FGt(r.num_shares, ZERO)
                       /\ FLe(r.amount, ZERO)
                       /\ FLe(r.accum_unpaid_coupon, ZERO)
    /\ r.side = SELL => /\ FLt(r.num_shares, ZERO)
                        /\ FGe(r.amount, ZERO)
                        /\ FGe(r.accum_unpaid_coupon, ZERO)
    /\ FLe(r.broker_fee, ZERO)
    /\ FLe(r.exchange_fee, ZERO)

C9_EquityLineInvariants ==
    pc = "constructed" =>
        /\ line.kind = "ok" => EquityInvariants(line.value)
        /\ ~EquityInvariants(call.args) =>
              /\ line.kind = "raise"
              /\ line.exc = "ValueError"
              /\ line.trade_id = call.args.trade_id

(***************************************************************************)
(* C10: an FXTradesReportLine that exists has strike > 0; with side BUY    *)
(* und_amt > 0 and acc_amt < 0; with side SELL und_amt < 0 and             *)
(* acc_amt > 0; and broker_fee <= 0 and exchange_fee <= 0.  A constructor  *)
(* call with fields that are not so raises an error that names the         *)
(* trade_id.                                                               *)
(***************************************************************************)
FXInvariants(r) ==
    /\ FGt(r.strike, ZERO)
    /\ r.side = BUY => FGt(r.und_amt, ZERO) /\ FLt(r.acc_amt, ZERO)
    /\ r.side = SELL => FLt(r.und_amt, ZERO) /\ FGt(r.acc_amt, ZERO)
    /\ FLe(r.broker_fee, ZERO)
    /\ FLe(r.exchange_fee, ZERO)

C10_FXLineInvariants ==
    pc = "constructed" =>
        /\ line.kind = "ok" => FXInvariants(line.value)
        /\ ~FXInvariants(call.args) =>
              /\ line.kind = "raise"
              /\ line.exc = "ValueError"
              /\ line.trade_id = call.args.trade_id

RECURSIVE FSum(_)
FSum(s) == IF s = <<>> THEN ZERO ELSE FAdd(Head(s), FSum(Tail(s)))

\* the equity trades of the Report that the reducer was called with
EqTradesGiven == call.heap[call.args[1].equity_trades]

NetShares(isin) ==
    LET Same(tr) == tr.isin = isin
        trades == SelectSeq(EqTradesGiven, Same)
    IN  FSum([i \in 1..Len(trades) |-> trades[i].num_shares])

NetAmount(ccy) ==
    LET Same(tr) == tr.ccy = ccy
        trades == SelectSeq(EqTradesGiven, Same)
        legs == FSum([i \in 1..Len(trades) |->
                         FAdd(trades[i].amount, trades[i].accum_unpaid_coupon)])
        fees == FSum([i \in 1..Len(EqTradesGiven) |->
                         FAdd(EqTradesGiven[i].broker_fee, EqTradesGiven[i].exchange_fee)])
    IN  IF ccy = call.args[2] THEN FAdd(legs, fees) ELSE legs

C14_EqTotalsPruned ==
    pc = "eq_totals" =>
        /\ result.kind = "ok"
        /\ LET isin_to_num_shares == result.value[1]
               ccy_to_amount == result.value[2]
               isins == {EqTradesGiven[i].isin : i \in 1..Len(EqTradesGiven)}
               ccys == {EqTradesGiven[i].ccy : i \in 1..Len(EqTradesGiven)}
                       \cup {call.args[2]}
           IN  /\ DOMAIN isin_to_num_shares = {k \in isins : ~FEq(NetShares(k), ZERO)}
               /\ \A k \in DOMAIN isin_to_num_shares :
                     /\ isin_to_num_shares[k] = NetShares(k)
                     /\ isin_to_num_shares[k] # ZERO
               /\ DOMAIN ccy_to_amount = {k \in ccys : ~FEq(NetAmount(k), ZERO)}
               /\ \A k \in DOMAIN ccy_to_amount :
                     /\ ccy_to_amount[k] = NetAmount(k)
                     /\ ccy_to_amount[k] # ZERO

\* 10 shares bought for 100 and a fee of 1, then sold for 101, and 5 of
\* another ISIN sold in USD: the first ISIN and the domestic RUB are gone,
\* the other ISIN and USD are there
C14_Witness ==
    /\ pc = "eq_totals"
    /\ call.args[2] = "RUB"
    /\ Len(EqTradesGiven) = 3
    /\ EqTradesGiven[1].num_shares = F(10)
    /\ EqTradesGiven[2].num_shares = F(-10)
    /\ EqTradesGiven[2].amount = F(101)
    /\ result.kind = "ok"
    /\ DOMAIN result.value[1] = {"US0378331005"}
    /\ result.value[1]["US0378331005"] = F(-5)
    /\ DOMAIN result.value[2] = {"USD"}
    /\ result.value[2]["USD"] = F(52)
    /\ result.value[3] = F(-1)


(***************************************************************************)
(* C15: get_cash_flow_totals returns two maps trading platform -> currency *)
(* -> amount.  The first has an entry for exactly the (trading_platform,   *)
(* ccy) pairs of the cash flows, the sum of amt_total over the cash flows  *)
(* of the pair.  The second has an entry for exactly the pairs of the cash *)
(* flows whose description is "Zachislenie d/s", is "Spisanie d/s" or      *)
(* contains "Perevod d/s", the sum of amt_total over those cash flows; a   *)
(* deposit is counted in both.                                             *)
(***************************************************************************)
\* the cash flows of the Report that the reducer was called with
CashflowsGiven == call.heap[call.args[1].cashflows]

\* the (trading platform, currency) pairs that the nested map d has
PairsOf(d) == UNION {{<<tp, ccy>> : ccy \in DOMAIN d[tp]} : tp \in DOMAIN d}

OwnMoney(cf) ==
    \/ cf.description = <<"Zachislenie", "d/s">>
    \/ cf.description = <<"Spisanie", "d/s">>
    \/ \E i \in 1..(Len(cf.description) - 1) :
          cf.description[i] = "Perevod" /\ cf.description[i + 1] = "d/s"

\* the nested map d holds, for the cash flows cfs, their pairs and their sums
TotalsOf(d, cfs) ==
    /\ PairsOf(d) = {<<cfs[i].trading_platform, cfs[i].ccy>> : i \in 1..Len(cfs)}
    /\ \A tp \in DOMAIN d : DOMAIN d[tp] # {}
    /\ \A pair \in PairsOf(d) :
          LET Same(cf) == cf.trading_platform = pair[1] /\ cf.ccy = pair[2]
              same == SelectSeq(cfs, Same)
          IN  d[pair[1]][pair[2]] = FSum([i \in 1..Len(same) |-> same[i].amt_total])

C15_CashFlowTotals ==
    pc = "cash_totals" =>
        /\ result.kind = "ok"
        /\ TotalsOf(result.value[1], CashflowsGiven)
        /\ TotalsOf(result.value[2], SelectSeq(CashflowsGiven, OwnMoney))

\* a deposit of 7, a coupon of 5 and a transfer of -4 elsewhere: the deposit
\* is in both maps, the coupon in the first only
C15_Witness ==
    /\ pc = "cash_totals"
    /\ Len(CashflowsGiven) = 3
    /\ CashflowsGiven[1].description = DEPOSIT
    /\ CashflowsGiven[1].amt_total = F(7)
    /\ CashflowsGiven[2].description = <<"Kupon">>
    /\ CashflowsGiven[3].description = <<"Perevod", "d/s", "mezhdu", "ploshchadkami">>
    /\ result.kind = "ok"
    /\ result.value[1]["Fondovyi rynok"]["RUB"] = F(12)
    /\ result.value[2]["Fondovyi rynok"]["RUB"] = F(7)
    /\ result.value[1]["Valyutnyi rynok"]["RUB"] = F(-4)
    /\ result.value[2]["Valyutnyi rynok"]["RUB"] = F(-4)


(***************************************************************************)
(* C16: for a Report whose FX trades satisfy the FXTradesReportLine        *)
(* invariants, and any domestic currency, get_fx_totals returns (map,      *)
(* fees): fees is the sum of broker_fee + exchange_fee over the trades and *)
(* is <= 0; a currency that is not the domestic one maps to the sum of     *)
(* und_amt over the trades with that und_ccy plus the sum of acc_amt over  *)
(* the trades with that acc_ccy; the domestic currency maps to that sum    *)
(* plus fees.  Also when a currency that is not the domestic one nets to   *)
(* zero or is the settlement currency only.                                *)
(***************************************************************************)
\* the FX trades of the Report that the reducer was called with
FxTradesGiven == call.heap[call.args[1].fx_trades]

FxFees ==
    FSum([i \in 1..Len(FxTradesGiven) |->
             FAdd(FxTradesGiven[i].broker_fee, FxTradesGiven[i].exchange_fee)])

\* the sum of the legs of the trades in currency ccy
FxLegs(ccy) ==
    FSum([i \in 1..Len(FxTradesGiven) |->
             FAdd(IF FxTradesGiven[i].und_ccy = ccy THEN FxTradesGiven[i].und_amt ELSE ZERO,
                  IF FxTradesGiven[i].acc_ccy = ccy THEN FxTradesGiven[i].acc_amt ELSE ZERO)])

FxCurrencies ==
    {FxTradesGiven[i].und_ccy : i \in 1..Len(FxTradesGiven)}
    \cup {FxTradesGiven[i].acc_ccy : i \in 1..Len(FxTradesGiven)}
    \cup {call.args[2]}

\* what get_fx_totals returned is the map and the fees of the claim
FxTotalsAsClaimed ==
    /\ result.kind = "ok"
    /\ result.value[2] = FxFees
    /\ FLe(result.value[2], ZERO)
    /\ DOMAIN result.value[1] = FxCurrencies
    /\ \A ccy \in FxCurrencies :
          result.value[1][ccy] = IF ccy = call.args[2] THEN FAdd(FxLegs(ccy), FxFees)
                                 ELSE FxLegs(ccy)

C16_FxTotals ==
    (/\ pc = "fx_totals"
     /\ \A i \in 1..Len(FxTradesGiven) : FXInvariants(FxTradesGiven[i])) =>
        FxTotalsAsClaimed

(***************************************************************************)
(* C19: for each currency c of the position map that is not the domestic   *)
(* one, the weighted-average strike that get_fx_totals computes is (the    *)
(* sum of und_amt * strike over the trades with und_ccy = c) divided by    *)
(* (the sum of und_amt over the trades with und_ccy = c), also when c is   *)
(* the settlement currency of another trade.                               *)
(***************************************************************************)
UndTrades(ccy) ==
    LET Und(tr) == tr.und_ccy = ccy
    IN  SelectSeq(FxTradesGiven, Und)

C19_WeightedAverageStrike ==
    (pc = "fx_totals" /\ result.kind = "ok") =>
        \A ccy \in DOMAIN result.value[1] \ {call.args[2]} :
            LET trades == UndTrades(ccy)
                weighted == FSum([i \in 1..Len(trades) |->
                                     FMul(trades[i].und_amt, trades[i].strike)])
                weights == FSum([i \in 1..Len(trades) |-> trades[i].und_amt])
                strike_wa == result.logged[ccy]
            IN  IF weighted.nan \/ weights.nan THEN strike_wa.nan
                ELSE /\ ~strike_wa.nan
                     /\ weights.v # 0
                     /\ strike_wa.num * weights.v = weighted.v * strike_wa.den


(***************************************************************************)
(* C18: parse_cashflows returns, in the order of the table, the rows whose *)
(* first cell does not contain "Itogo" and whose description contains none *)
(* of "Sdelka", "Komissiya Birzhi", "Komissiya Brokera" and "Perevod d/s   *)
(* dlya provedeniya raschetov po kliringu"; a row whose description        *)
(* contains one of them is read (a cell of it that cannot be read ends the *)
(* parse with an error) and left out; amt_total of an entry is the amount  *)
(* credited to the account less the amount debited from it.                *)
(***************************************************************************)
\* the rows of the table that the parser was called with, the header apart
CashRowsGiven == Tail(call.args[1][2].rows)

\* the words ws stand next to each other, in that order, in the text
HasWords(text, ws) ==
    \E i \in 1..Len(text) :
        /\ i + Len(ws) - 1 <= Len(text)
        /\ \A j \in 1..Len(ws) : text[i + j - 1] = ws[j]

IsSubtotalRow(row) == "Itogo" \in Range(row[1])

IsLeftOut(row) ==
    \/ HasWords(row[3], <<"Sdelka">>)
    \/ HasWords(row[3], <<"Komissiya", "Birzhi">>)
    \/ HasWords(row[3], <<"Komissiya", "Brokera">>)
    \/ HasWords(row[3], <<"Perevod", "d/s", "dlya", "provedeniya", "raschetov", "po", "kliringu">>)

\* the text of a cell is a whole number, blanks apart
IsAmountText(text) ==
    LET NotBlank(c) == c # " "
    IN  IsIntegerText(SelectSeq(text, NotBlank))

AmountOf(text) ==
    LET NotBlank(c) == c # " "
    IN  NumberOf(SelectSeq(text, NotBlank))

C18_CashflowsWithoutTradeFlows ==
    pc = "cashflows_parsed" =>
        LET IsData(row) == ~IsSubtotalRow(row)
            IsKept(row) == ~IsLeftOut(row)
            data == SelectSeq(CashRowsGiven, IsData)
            kept == SelectSeq(data, IsKept)
        IN  IF \E i \in 1..Len(data) : ~IsAmountText(data[i][5]) \/ ~IsAmountText(data[i][6])
            THEN result.kind = "raise"
            ELSE /\ result.kind = "ok"
                 /\ Len(result.value) = Len(kept)
                 /\ \A i \in 1..Len(kept) :
                       /\ result.value[i].trading_platform = kept[i][2]
                       /\ result.value[i].description = kept[i][3]
                       /\ result.value[i].ccy = kept[i][4]
                       /\ result.value[i].amt_debit = F(AmountOf(kept[i][5]))
                       /\ result.value[i].amt_credit = F(AmountOf(kept[i][6]))
                       /\ result.value[i].amt_total
                              = F(AmountOf(kept[i][5]) - AmountOf(kept[i][6]))

\* a trade, a deposit of 1 000 and a transfer of 500 to the other platform:
\* the list holds the deposit and the transfer
C18_Witness ==
    /\ pc = "cashflows_parsed"
    /\ Len(CashRowsGiven) = 3
    /\ CashRowsGiven[1][3] = <<"Sdelka", "ot">> \o DAY1
    /\ CashRowsGiven[2][3] = DEPOSIT
    /\ CashRowsGiven[3][3] = <<"Perevod", "d/s", "mezhdu", "ploshchadkami">>
    /\ result.kind = "ok"
    /\ Len(result.value) = 2
    /\ result.value[1].description = DEPOSIT
    /\ result.value[1].date = 20210201
    /\ result.value[1].amt_total = F(1000)
    /\ result.value[2].amt_total = F(-500)


(***************************************************************************)
(* C17: parse_equity_trades decodes a row of side BUY to num_shares =      *)
(* +count, amount = -amount_raw, accum_unpaid_coupon = -coupon_raw, a row  *)
(* of side SELL to num_shares = -count, amount = +amount_raw,              *)
(* accum_unpaid_coupon = +coupon_raw, and both fees to the negation of the *)
(* raw value; every record that it returns satisfies the invariants of an  *)
(* equity trade, and a row that cannot ends the parse with an error.       *)
(***************************************************************************)
\* the rows of the table that the parser was called with, the header and
\* the skipped rows apart
EquityRowsGiven ==
    LET IsData(row) == "Ploshchadka" \notin Range(row[1]) /\ "Itogo" \notin Range(row[1])
    IN  SelectSeq(Tail(call.args[1][2].rows), IsData)

\* the float that the text of a cell stands for
RawValue(text) == IF text = <<"n", "a", "n">> THEN NaN ELSE F(AmountOf(text))

\* the record is the row decoded as the claim says
DecodedAsClaimed(r, row) ==
    LET count == RawValue(row[8])
        amount_raw == RawValue(row[10])
        coupon_raw == RawValue(row[11])
    IN  /\ row[7] = <<"Pokupka">> =>
              /\ r.side = BUY
              /\ r.num_shares = count
              /\ r.amount = FNeg(amount_raw)
              /\ r.accum_unpaid_coupon = FNeg(coupon_raw)
        /\ row[7] = <<"Prodazha">> =>
              /\ r.side = SELL
              /\ r.num_shares = FNeg(count)
              /\ r.amount = amount_raw
              /\ r.accum_unpaid_coupon = coupon_raw
        /\ r.unit_price = RawValue(row[9])
        /\ r.broker_fee = FNeg(RawValue(row[12]))
        /\ r.exchange_fee = FNeg(RawValue(row[13]))

\* no record of the row can satisfy the invariants: its side is none, its
\* count or its price is not above 0, or a raw fee is below 0
CannotSatisfy(row) ==
    \/ row[7] \notin {<<"Pokupka">>, <<"Prodazha">>}
    \/ ~FGt(RawValue(row[8]), ZERO)
    \/ ~FGt(RawValue(row[9]), ZERO)
    \/ ~FGe(RawValue(row[12]), ZERO)
    \/ ~FGe(RawValue(row[13]), ZERO)

C17_EquityRowsDecoded ==
    pc = "equity_parsed" =>
        /\ result.kind = "ok" =>
              /\ Len(result.value) = Len(EquityRowsGiven)
              /\ \A i \in 1..Len(EquityRowsGiven) :
                    /\ DecodedAsClaimed(result.value[i], EquityRowsGiven[i])
                    /\ EquityInvariants(result.value[i])
        /\ (\E i \in 1..Len(EquityRowsGiven) : CannotSatisfy(EquityRowsGiven[i])) =>
              result.kind = "raise"


(***************************************************************************)
(* C11: when the title paragraph of a section, or the table of a section,  *)
(* is not in the document, parse_cashflows, parse_equity_trades and        *)
(* parse_fx_trades each return an empty list and raise nothing, and        *)
(* parse_report returns a Report whose other sections are parsed as they   *)
(* are without it.                                                         *)
(***************************************************************************)
\* the document that the parser was called with
SoupGiven == call.args[Len(call.args)]

\* the document has no paragraph of that title, or no table right behind it
SectionMissing(soup, title) ==
    \A i \in 1..Len(soup) :
        (soup[i].name = "p" /\ soup[i].text = title) =>
            (i = Len(soup) \/ soup[i + 1].name # "table")

\* the section of that title alone, as the document has it
SectionAlone(soup, title) ==
    LET Belongs(i) ==
            \/ soup[i].name = "p" /\ soup[i].text = title
            \/ /\ soup[i].name = "table" /\ i > 1
               /\ soup[i - 1].name = "p" /\ soup[i - 1].text = title
        kept == {i \in 1..Len(soup) : Belongs(i)}
    IN  IF kept = {} THEN <<>>
        ELSE [j \in 1..Cardinality(kept) |-> soup[SetMin(kept) + j - 1]]

HeaderAsInStatements ==
    /\ SoupGiven # <<>>
    /\ SoupGiven[1] = HeaderP(INVESTOR_TEXT, ACCOUNT_TEXT)

C11_MissingSectionIsEmpty ==
    /\ (pc = "cashflows_parsed" /\ SectionMissing(SoupGiven, CASHFLOWS_TITLE)) =>
          result = Returned(<<>>)
    /\ (pc = "equity_parsed" /\ SectionMissing(SoupGiven, EQUITY_TRADES_TITLE)) =>
          result = Returned(<<>>)
    /\ (pc = "fx_parsed" /\ SectionMissing(SoupGiven, FX_TRADES_TITLE)) =>
          result = Returned(<<>>)
    /\ (pc = "report_parsed" /\ HeaderAsInStatements) =>
          /\ result.kind = "ok"
          /\ heap[result.value.cashflows] =
                 IF SectionMissing(SoupGiven, CASHFLOWS_TITLE) THEN <<>>
                 ELSE parse_cashflows(SectionAlone(SoupGiven, CASHFLOWS_TITLE)).value
          /\ heap[result.value.equity_trades] =
                 IF SectionMissing(SoupGiven, EQUITY_TRADES_TITLE) THEN <<>>
                 ELSE parse_equity_trades(SectionAlone(SoupGiven, EQUITY_TRADES_TITLE)).value
          /\ heap[result.value.fx_trades] =
                 IF SectionMissing(SoupGiven, FX_TRADES_TITLE) THEN <<>>
                 ELSE parse_fx_trades(SectionAlone(SoupGiven, FX_TRADES_TITLE)).value

(***************************************************************************)
(* C13: when the document has no header paragraph, or the investor pattern *)
(* or the account pattern does not match in it, parse_report returns no    *)
(* Report and raises an error that names the source file, fname.           *)
(***************************************************************************)
\* the header paragraph is missing, or one of its two texts is not one that
\* its pattern matches
IsHeaderP(tag) == tag.name = "p" /\ "Investor" \in Range(tag.text)

HeaderMissingOrUnmatched ==
    \/ \A i \in 1..Len(SoupGiven) : ~IsHeaderP(SoupGiven[i])
    \/ \E i \in 1..Len(SoupGiven) :
          /\ IsHeaderP(SoupGiven[i])
          /\ \/ SoupGiven[i].contents[1].text # INVESTOR_TEXT
             \/ SoupGiven[i].contents[3].text \notin
                    {ACCOUNT_TEXT,
                     <<"Dogovor", " ", "1234ABC", " ", "ot", " ", "3", "0">>
                         \o SubSeq(DAY1, 3, 10)}

C13_HeaderFailureNamesFile ==
    (pc = "report_parsed" /\ HeaderMissingOrUnmatched) =>
        /\ result.kind = "raise"
        /\ call.args[1] \in Range(result.what)


(***************************************************************************)
(* C12: in each section parser, when a label that the parser looks for is  *)
(* not in the header row and a data row is decoded, the parser ends with   *)
(* an error that names the missing label, and returns no records.          *)
(***************************************************************************)
\* the table of the document, its header row, its rows that are decoded
TableGiven == SoupGiven[2]
HeaderGiven == TableGiven.rows[1]
LabelsOf(section) ==
    CASE section = "cashflows_parsed" -> Range(CashHeader)
      [] section = "equity_parsed" -> Range(EquityHeader)
      [] section = "fx_parsed" -> Range(FxHeader)
MissingLabels == LabelsOf(pc) \ Range(HeaderGiven)
IsSkippedRow(cols) ==
    CASE pc = "cashflows_parsed" -> Contains(ITOGO, cols[1])
      [] pc = "equity_parsed" -> Contains(PLOSHCHADKA, cols[1]) \/ Contains(ITOGO, cols[1])
      [] pc = "fx_parsed" -> Contains(OBOROT, cols[1])
SomeRowIsDecoded ==
    \E r \in 2..Len(TableGiven.rows) : ~IsSkippedRow(TableGiven.rows[r])

C12_MissingLabelIsNamed ==
    (/\ pc \in {"cashflows_parsed", "equity_parsed", "fx_parsed"}
     /\ MissingLabels # {}
     /\ SomeRowIsDecoded) =>
        /\ result.kind = "raise"
        /\ \E label \in MissingLabels : Contains(label, result.what)


====
